---- MODULE Spec2Model ----
(***************************************************************************)
(* Session lifecycle of the verifier backend (internal/api/server.go):     *)
(* SignIn, Callback, Status and GetQRCodeFromStore over one go-cache       *)
(* instance shared by the session store and the QR payload store.          *)
(*                                                                         *)
(* Conventions.  A Go pointer or nilable map is a sequence of length at    *)
(* most one (None / Some(x)).  A uuid is a natural number and its String() *)
(* is ToString of it.  A JSON string that the code parses is a sequence of *)
(* one-character strings; every other string is a TLA+ string.             *)
(***************************************************************************)
EXTENDS Naturals, Integers, Sequences, FiniteSets, TLC

VARIABLES cfg, cache, now, nextUUID, workers, last, issued, input

vars == <<cfg, cache, now, nextUUID, workers, last, issued, input>>

-----------------------------------------------------------------------------
(* Bounds of the model *)

MaxWorkers == 2
MaxUUID == 3
MaxTime == 2
MaxRespScopes == 2
MaxTimeTTL == 4
MaxPairUUID == 6

-----------------------------------------------------------------------------
(* Options *)

None == <<>>
Some(x) == <<x>>
IsNil(o) == Len(o) = 0
Deref(o) == o[1]

-----------------------------------------------------------------------------
(* Program constants *)

statusPending == "pending"
statusSuccess == "success"
statusError == "error"
defaultReason == "for testing purposes"
CallbackURL == "/callback"
OneHour == 2
\* the default of Config.CacheExpiration, "48h"
DefaultCacheExpiration == 48 * OneHour

AtomicQuerySigV2CircuitID == "credentialAtomicQuerySigV2"
AtomicQueryMTPV2CircuitID == "credentialAtomicQueryMTPV2"
AtomicQueryV3CircuitID == "credentialAtomicQueryV3-beta.1"
AtomicQuerySigV2OnChainCircuitID == "credentialAtomicQuerySigV2OnChain"
AtomicQueryMTPV2OnChainCircuitID == "credentialAtomicQueryMTPV2OnChain"
AtomicQueryV3OnChainCircuitID == "credentialAtomicQueryV3OnChain-beta.1"

OffChainCircuits == {AtomicQuerySigV2CircuitID, AtomicQueryMTPV2CircuitID, AtomicQueryV3CircuitID}
OnChainCircuits == {AtomicQuerySigV2OnChainCircuitID, AtomicQueryMTPV2OnChainCircuitID, AtomicQueryV3OnChainCircuitID}

MediaTypePlainMessage == "application/iden3comm-plain-json"
AuthorizationRequestMessageType == "https://iden3-communication.io/authorization/1.0/request"
ContractInvokeRequestMessageType == "https://iden3-communication.io/proofs/1.0/contract-invoke-request"

mumbaiNetwork == "80001"
mainnetNetwork == "137"
amoyNetwork == "80002"

-----------------------------------------------------------------------------
(* Decimal big integers: big.Int.SetString(s, 10) and big.Int.String() *)

defaultBigIntBase == 10

Digits == <<"0", "1", "2", "3", "4", "5", "6", "7", "8", "9">>

IsDigit(c) == \E d \in 1..defaultBigIntBase : Digits[d] = c

DigitVal(c) == (CHOOSE d \in 1..defaultBigIntBase : Digits[d] = c) - 1

RECURSIVE ParseDigits(_, _)
ParseDigits(s, acc) ==
    IF Len(s) = 0 THEN acc
    ELSE ParseDigits(Tail(s), acc * defaultBigIntBase + DigitVal(Head(s)))

RECURSIVE FormatNat(_)
FormatNat(n) ==
    IF n < defaultBigIntBase THEN <<Digits[n + 1]>>
    ELSE Append(FormatNat(n \div defaultBigIntBase), Digits[(n % defaultBigIntBase) + 1])

\* SetString: an optional sign followed by at least one digit, nothing else.
\* Mutant: the digits before the first other character are taken as the number
SetString_Prefix(s) ==
    LET signed == Len(s) > 0 /\ Head(s) \in {"+", "-"}
        body == IF signed THEN Tail(s) ELSE s
        n == Cardinality({k \in 1..Len(body) : \A i \in 1..k : IsDigit(body[i])})
        mag == IF n > 0 THEN ParseDigits(SubSeq(body, 1, n), 0) ELSE 0
    IN [ok |-> n > 0, val |-> IF signed /\ Head(s) = "-" THEN 0 - mag ELSE mag]

SetString(s) ==
    LET signed == Len(s) > 0 /\ Head(s) \in {"+", "-"}
        body == IF signed THEN Tail(s) ELSE s
        ok == Len(body) > 0 /\ \A i \in 1..Len(body) : IsDigit(body[i])
        mag == IF ok THEN ParseDigits(body, 0) ELSE 0
    IN [ok |-> ok, val |-> IF signed /\ Head(s) = "-" THEN 0 - mag ELSE mag]

BigIntString(n) == IF n < 0 THEN <<"-">> \o FormatNat(0 - n) ELSE FormatNat(n)

-----------------------------------------------------------------------------
(* Request validation *)

NoError == None

\* Query[k] == nil || Query[k] == "" for a map[string]interface{}
QueryNil(q, k) == k \notin DOMAIN q
QueryNilOrEmpty(q, k) == k \notin DOMAIN q \/ q[k] = ""

WrongCircuitMsg(got, a, b, c) ==
    "field circuitId value is wrong, got " \o got \o ", expected " \o a \o " or " \o b \o " or " \o c

validateScope(offChainRequest, scope) ==
    IF scope.Id <= 0 THEN Some("field scope id is empty")
    ELSE IF scope.CircuitId = "" THEN Some("field circuitId is empty")
    ELSE IF offChainRequest /\ scope.CircuitId \notin OffChainCircuits
        THEN Some(WrongCircuitMsg(scope.CircuitId, AtomicQuerySigV2CircuitID,
                                  AtomicQueryMTPV2CircuitID, AtomicQueryV3CircuitID))
    ELSE IF ~offChainRequest /\ scope.CircuitId \notin OnChainCircuits
        THEN Some(WrongCircuitMsg(scope.CircuitId, AtomicQuerySigV2OnChainCircuitID,
                                  AtomicQueryMTPV2OnChainCircuitID, AtomicQueryV3OnChainCircuitID))
    ELSE IF IsNil(scope.Query) THEN Some("field query is empty")
    ELSE IF QueryNilOrEmpty(Deref(scope.Query), "context") THEN Some("context cannot be empty")
    ELSE IF QueryNilOrEmpty(Deref(scope.Query), "type") THEN Some("type cannot be empty")
    ELSE IF QueryNil(Deref(scope.Query), "allowedIssuers") THEN Some("allowedIssuers cannot be empty")
    ELSE NoError

RECURSIVE validateRequestQueryFrom(_, _, _, _)
validateRequestQueryFrom(offChainRequest, scope, i, reqIds) ==
    IF i > Len(scope) THEN NoError
    ELSE IF scope[i].Id \in reqIds
        THEN Some("field scope id must be unique, got " \o ToString(scope[i].Id) \o " multiple times")
    ELSE LET err == validateScope(offChainRequest, scope[i])
         IN IF ~IsNil(err) THEN err
            ELSE validateRequestQueryFrom(offChainRequest, scope, i + 1, reqIds \cup {scope[i].Id})

validateRequestQuery(offChainRequest, scope) ==
    validateRequestQueryFrom(offChainRequest, scope, 1, {})

\* Mutant: a chain id outside the three networks is refused like a missing one
validateOffChainRequest_ChecksMembership(body) ==
    IF IsNil(body.ChainID) \/ Deref(body.ChainID) \notin {mumbaiNetwork, mainnetNetwork, amoyNetwork}
    THEN Some("field chainId is empty expected " \o mumbaiNetwork \o " or " \o mainnetNetwork
              \o " or " \o amoyNetwork)
    ELSE validateRequestQuery(TRUE, body.Scope)

validateOffChainRequest(body) ==
    IF IsNil(body.ChainID)
    THEN Some("field chainId is empty expected " \o mumbaiNetwork \o " or " \o mainnetNetwork
              \o " or " \o amoyNetwork)
    ELSE validateRequestQuery(TRUE, body.Scope)

\* Mutant: the method id is tested before the contract address
checkOnChainRequest_MethodFirst(body) ==
    LET err == validateRequestQuery(FALSE, body.Scope)
    IN IF ~IsNil(err) THEN err
       ELSE IF IsNil(body.TransactionData) THEN Some("field transactionData is empty")
       ELSE IF Deref(body.TransactionData).ChainID <= 0 THEN Some("field chainId is empty")
       ELSE IF Deref(body.TransactionData).MethodID = "" THEN Some("field methodId is empty")
       ELSE IF Deref(body.TransactionData).ContractAddress = "" THEN Some("field contractAddress is empty")
       ELSE IF Deref(body.TransactionData).Network = "" THEN Some("field network is empty")
       ELSE NoError

checkOnChainRequest(body) ==
    LET err == validateRequestQuery(FALSE, body.Scope)
    IN IF ~IsNil(err) THEN err
       ELSE IF IsNil(body.TransactionData) THEN Some("field transactionData is empty")
       ELSE IF Deref(body.TransactionData).ChainID <= 0 THEN Some("field chainId is empty")
       ELSE IF Deref(body.TransactionData).ContractAddress = "" THEN Some("field contractAddress is empty")
       ELSE IF Deref(body.TransactionData).MethodID = "" THEN Some("field methodId is empty")
       ELSE IF Deref(body.TransactionData).Network = "" THEN Some("field network is empty")
       ELSE NoError

-----------------------------------------------------------------------------
(* Request builder *)

\* Results of a builder: ok with a value, err with a message, or a run-time panic.
Ok(v) == [kind |-> "ok", msg |-> "", val |-> v]
Err(m) == [kind |-> "err", msg |-> m, val |-> None]
Panic == [kind |-> "panic", msg |-> "", val |-> None]

\* A JSON value held in a map[string]interface{}: a string or something else.
JSONString(s) == [t |-> "string", s |-> s]
JSONNumber == [t |-> "number", s |-> <<>>]

getParams(params) ==
    IF "nullifierSessionID" \notin DOMAIN params THEN Err("nullifierSessionID is empty")
    ELSE LET val == params["nullifierSessionID"]
         IN IF val.t # "string" THEN Panic
            ELSE LET n == SetString(val.s)
                 IN IF ~n.ok THEN Err("nullifierSessionID is not a valid big integer")
                    ELSE Ok([nullifierSessionId |-> BigIntString(n.val)])

\* Mutant: a chain without a sender gets the sender of the first network
getSenderDID_Fallback(senderDIDs, chainID) ==
    IF chainID \notin DOMAIN senderDIDs THEN Ok(senderDIDs[mumbaiNetwork])
    ELSE Ok(senderDIDs[chainID])

getSenderDID(senderDIDs, chainID) ==
    IF chainID \notin DOMAIN senderDIDs THEN Err("sender not found for chainID " \o chainID)
    ELSE Ok(senderDIDs[chainID])

\* Mutant: the callback URL names the id drawn after the session id
getUri_NextID(config, sessionID) ==
    config.Host \o CallbackURL \o "?sessionID=" \o ToString(sessionID + 1)

getUri(config, sessionID) ==
    config.Host \o CallbackURL \o "?sessionID=" \o ToString(sessionID)

getReason(reason) == IF IsNil(reason) THEN defaultReason ELSE Deref(reason)

\* The scope loop of both builders: copy each scope, converting its params;
\* the first scope whose params fail ends the loop with that failure.
RECURSIVE buildScopes(_, _, _)
buildScopes(scope, i, acc) ==
    IF i > Len(scope) THEN Ok(acc)
    ELSE LET sc == scope[i]
             params == IF IsNil(sc.Params) THEN Ok(None) ELSE getParams(Deref(sc.Params))
         IN IF params.kind # "ok" THEN params
            ELSE buildScopes(scope, i + 1,
                     Append(acc, [ID |-> sc.Id, CircuitID |-> sc.CircuitId, Query |-> sc.Query,
                                  Params |-> IF IsNil(sc.Params) THEN None ELSE Some(params.val)]))

\* auth.CreateAuthorizationRequest followed by the assignments of getAuthRequestOffChain
getAuthRequestOffChain(config, senderDIDs, body, sessionID, id) ==
    LET err == validateOffChainRequest(body)
    IN IF ~IsNil(err) THEN Err(Deref(err))
       ELSE LET senderDID == getSenderDID(senderDIDs, Deref(body.ChainID))
            IN IF senderDID.kind # "ok" THEN senderDID
               ELSE LET scopes == buildScopes(body.Scope, 1, <<>>)
                    IN IF scopes.kind # "ok" THEN scopes
                       ELSE Ok([kind |-> "AuthorizationRequestMessage",
                                ID |-> id, ThreadID |-> id,
                                Typ |-> MediaTypePlainMessage,
                                Type |-> AuthorizationRequestMessageType,
                                From |-> senderDID.val,
                                To |-> IF IsNil(body.To) THEN "" ELSE Deref(body.To),
                                Body |-> [CallbackURL |-> getUri(config, sessionID),
                                          Reason |-> getReason(body.Reason),
                                          Scope |-> scopes.val]])

\* Chain ids known to the DID registry of go-iden3-core.
CoreChainIDs == {137, 80001, 80002}

buildOnchainVerifierDID(transactionData) ==
    IF transactionData.ChainID \notin CoreChainIDs
    THEN Err("chainID not registered")
    ELSE Ok("did:polygonid:" \o ToString(transactionData.ChainID) \o ":" \o transactionData.ContractAddress)

\* Mutant: the sender stays the configured sender of the chain
getContractInvokeRequestOnChain_SenderFrom(senderDIDs, body, id) ==
    LET err == checkOnChainRequest(body)
    IN IF ~IsNil(err) THEN Err(Deref(err))
       ELSE LET scopes == buildScopes(body.Scope, 1, <<>>)
            IN IF scopes.kind # "ok" THEN scopes
               ELSE LET transactionData == Deref(body.TransactionData)
                        senderDID == getSenderDID(senderDIDs, ToString(transactionData.ChainID))
                    IN IF senderDID.kind # "ok" THEN senderDID
                       ELSE LET verifierDID == buildOnchainVerifierDID(transactionData)
                            IN IF verifierDID.kind # "ok" THEN verifierDID
                               ELSE Ok([kind |-> "ContractInvokeRequestMessage",
                                        ID |-> id, ThreadID |-> id,
                                        Typ |-> MediaTypePlainMessage,
                                        Type |-> ContractInvokeRequestMessageType,
                                        From |-> senderDID.val,
                                        To |-> IF IsNil(body.To) THEN "" ELSE Deref(body.To),
                                        Body |-> [Reason |-> getReason(body.Reason),
                                                  Scope |-> scopes.val,
                                                  TransactionData |-> transactionData]])

\* Mutant: the sender of the chain is looked up before the transaction data
\* is checked
getContractInvokeRequestOnChain_LookupFirst(senderDIDs, body, id) ==
    LET known == IsNil(body.TransactionData)
                 \/ ToString(Deref(body.TransactionData).ChainID) \in DOMAIN senderDIDs
        err == checkOnChainRequest(body)
    IN IF ~known THEN getSenderDID(senderDIDs, ToString(Deref(body.TransactionData).ChainID))
       ELSE IF ~IsNil(err) THEN Err(Deref(err))
       ELSE LET scopes == buildScopes(body.Scope, 1, <<>>)
            IN IF scopes.kind # "ok" THEN scopes
               ELSE LET transactionData == Deref(body.TransactionData)
                        verifierDID == buildOnchainVerifierDID(transactionData)
                    IN IF verifierDID.kind # "ok" THEN verifierDID
                       ELSE Ok([kind |-> "ContractInvokeRequestMessage",
                                ID |-> id, ThreadID |-> id,
                                Typ |-> MediaTypePlainMessage,
                                Type |-> ContractInvokeRequestMessageType,
                                From |-> verifierDID.val,
                                To |-> IF IsNil(body.To) THEN "" ELSE Deref(body.To),
                                Body |-> [Reason |-> getReason(body.Reason),
                                          Scope |-> scopes.val,
                                          TransactionData |-> transactionData]])

getContractInvokeRequestOnChain(senderDIDs, body, id) ==
    LET err == checkOnChainRequest(body)
    IN IF ~IsNil(err) THEN Err(Deref(err))
       ELSE LET scopes == buildScopes(body.Scope, 1, <<>>)
            IN IF scopes.kind # "ok" THEN scopes
               ELSE LET transactionData == Deref(body.TransactionData)
                        senderDID == getSenderDID(senderDIDs, ToString(transactionData.ChainID))
                    IN IF senderDID.kind # "ok" THEN senderDID
                       ELSE LET verifierDID == buildOnchainVerifierDID(transactionData)
                            IN IF verifierDID.kind # "ok" THEN verifierDID
                               ELSE Ok([kind |-> "ContractInvokeRequestMessage",
                                        ID |-> id, ThreadID |-> id,
                                        Typ |-> MediaTypePlainMessage,
                                        Type |-> ContractInvokeRequestMessageType,
                                        From |-> verifierDID.val,
                                        To |-> IF IsNil(body.To) THEN "" ELSE Deref(body.To),
                                        Body |-> [Reason |-> getReason(body.Reason),
                                                  Scope |-> scopes.val,
                                                  TransactionData |-> transactionData]])

\* Mutant: the scopes are copied in reverse order
QRScopes_Reversed(scope) ==
    [i \in 1..Len(scope) |->
        [CircuitId |-> scope[Len(scope) + 1 - i].CircuitID, Id |-> scope[Len(scope) + 1 - i].ID,
         Query |-> scope[Len(scope) + 1 - i].Query, Params |-> scope[Len(scope) + 1 - i].Params]]

\* Scope list of a QR code: the message's scopes, field by field.
QRScopes(scope) ==
    [i \in 1..Len(scope) |->
        [CircuitId |-> scope[i].CircuitID, Id |-> scope[i].ID,
         Query |-> scope[i].Query, Params |-> scope[i].Params]]

\* Mutant: the QR code gets a message id of its own
getAuthReqQRCode_OwnId(request) ==
    [kind |-> "QRCode",
     From |-> request.From, Id |-> request.ID + 1, Thid |-> request.ThreadID,
     Typ |-> request.Typ, Type |-> request.Type,
     To |-> IF request.To # "" THEN Some(request.To) ELSE None,
     Body |-> [CallbackUrl |-> Some(request.Body.CallbackURL),
               Reason |-> request.Body.Reason,
               Scope |-> QRScopes(request.Body.Scope),
               TransactionData |-> None]]

getAuthReqQRCode(request) ==
    [kind |-> "QRCode",
     From |-> request.From, Id |-> request.ID, Thid |-> request.ThreadID,
     Typ |-> request.Typ, Type |-> request.Type,
     To |-> IF request.To # "" THEN Some(request.To) ELSE None,
     Body |-> [CallbackUrl |-> Some(request.Body.CallbackURL),
               Reason |-> request.Body.Reason,
               Scope |-> QRScopes(request.Body.Scope),
               TransactionData |-> None]]

getInvokeContractQRCode(request) ==
    [kind |-> "QRCode",
     From |-> request.From, Id |-> request.ID, Thid |-> request.ThreadID,
     Typ |-> request.Typ, Type |-> request.Type,
     To |-> IF request.To # "" THEN Some(request.To) ELSE None,
     Body |-> [CallbackUrl |-> None,
               Reason |-> request.Body.Reason,
               Scope |-> QRScopes(request.Body.Scope),
               TransactionData |-> Some([ChainId |-> request.Body.TransactionData.ChainID,
                                         ContractAddress |-> request.Body.TransactionData.ContractAddress,
                                         MethodId |-> request.Body.TransactionData.MethodID,
                                         Network |-> request.Body.TransactionData.Network])]]

-----------------------------------------------------------------------------
(* The cache (patrickmn/go-cache) shared by the session store and the QR store *)

DefaultExpiration == 0

\* Item.Expired: an item with an expiration is gone once the clock has passed it.
Expired(item, t) == item.Expiration > 0 /\ t > item.Expiration

\* Cache.Get: the stored object, or None when absent or expired.
cacheGet(c, t, k) ==
    IF k \in DOMAIN c /\ ~Expired(c[k], t) THEN Some(c[k].Object) ELSE None

\* Mutant: a write replaces the whole map
cacheSet_Clobbers(c, t, k, x, d, defaultExpiration) ==
    LET dur == IF d = DefaultExpiration THEN defaultExpiration ELSE d
        e == IF dur > 0 THEN t + dur ELSE 0
    IN [j \in {k} |-> [Object |-> x, Expiration |-> e]]

\* Mutant: overwriting an entry keeps the expiration it had
cacheSet_KeepsExpiration(c, t, k, x, d, defaultExpiration) ==
    LET dur == IF d = DefaultExpiration THEN defaultExpiration ELSE d
        e == IF k \in DOMAIN c THEN c[k].Expiration ELSE IF dur > 0 THEN t + dur ELSE 0
    IN [j \in DOMAIN c \cup {k} |-> IF j = k THEN [Object |-> x, Expiration |-> e] ELSE c[j]]

\* Cache.Set: insert or overwrite; d = DefaultExpiration means the cache's default.
cacheSet(c, t, k, x, d, defaultExpiration) ==
    LET dur == IF d = DefaultExpiration THEN defaultExpiration ELSE d
        e == IF dur > 0 THEN t + dur ELSE 0
    IN [j \in DOMAIN c \cup {k} |-> IF j = k THEN [Object |-> x, Expiration |-> e] ELSE c[j]]

\* Mutant: the janitor empties the cache
cacheDeleteExpired_Flush(c, t) ==
    [j \in {k \in DOMAIN c : FALSE} |-> c[j]]

\* Cache.DeleteExpired, run by the janitor.
cacheDeleteExpired(c, t) ==
    [j \in {k \in DOMAIN c : ~Expired(c[k], t)} |-> c[j]]

\* uuid.UUID.String()
UUIDString(id) == ToString(id)

\* Mutant: the QR store keeps its entries under the bare id
QRcodeStoreKey_Bare == ""

QRcodeStoreKey == "qr-code-"

\* QRcodeStore.Get
QRcodeStoreGet(c, t, id) ==
    LET data == cacheGet(c, t, QRcodeStoreKey \o UUIDString(id))
    IN IF IsNil(data) THEN Err("sessionID not found")
       ELSE IF Deref(data).kind # "QRCode" THEN Err("failed to cast data to QRCode")
       ELSE Ok(Deref(data))

\* Mutant: the QR code is kept for the cache's default expiration
QRcodeStoreSave_DefaultTTL(c, t, id, qrCode, defaultExpiration) ==
    cacheSet(c, t, QRcodeStoreKey \o UUIDString(id), qrCode, DefaultExpiration, defaultExpiration)

\* QRcodeStore.Save with the drawn uuid
QRcodeStoreSave(c, t, id, qrCode, defaultExpiration) ==
    cacheSet(c, t, QRcodeStoreKey \o UUIDString(id), qrCode, OneHour, defaultExpiration)

-----------------------------------------------------------------------------
(* Responses *)

JSONResponse(code, body) == [code |-> code, body |-> body]
ErrorBody(m) == [Message |-> m]
\* a handler returning (nil, err)
GoError(m) == [code |-> 500, body |-> [error |-> m]]
\* a handler returning (nil, nil)
NilResponse == [code |-> 0, body |-> [nil |-> TRUE]]
\* a handler that panicked before producing any response
PanicResponse == [code |-> 0, body |-> [panic |-> TRUE]]

QrCodeURL(config, qrID) ==
    "iden3comm://?request_uri=" \o config.Host \o "/qr-store" \o "?id=" \o UUIDString(qrID)

-----------------------------------------------------------------------------
(* Verification results *)

ErrorValue(cause) == [kind |-> "error", cause |-> cause]

VerificationResponse(jwz, userDID, scopes) ==
    [kind |-> "VerificationResponse", Jwz |-> jwz, UserDID |-> userDID, Scopes |-> scopes]

\* Mutant: a later scope of another circuit ends the loop with what was decoded
RECURSIVE responseScopesFrom_KeepsDecoded(_, _, _)
responseScopesFrom_KeepsDecoded(scopes, i, resp) ==
    IF i > Len(scopes) THEN Ok(resp)
    ELSE IF scopes[i].CircuitID # AtomicQueryV3CircuitID THEN Ok(resp)
    ELSE IF ~scopes[i].PubSignals.valid THEN Err("invalid pub signals")
    ELSE responseScopesFrom_KeepsDecoded(scopes, i + 1,
             Append(resp, [ID |-> scopes[i].ID,
                           NullifierSessionID |-> BigIntString(scopes[i].PubSignals.NullifierSessionID),
                           Nullifier |-> BigIntString(scopes[i].PubSignals.Nullifier)]))

\* The V3 loop of getVerificationResponseScopes
RECURSIVE responseScopesFrom(_, _, _)
responseScopesFrom(scopes, i, resp) ==
    IF i > Len(scopes) THEN Ok(resp)
    ELSE IF scopes[i].CircuitID # AtomicQueryV3CircuitID THEN Ok(<<>>)
    ELSE IF ~scopes[i].PubSignals.valid THEN Err("invalid pub signals")
    ELSE responseScopesFrom(scopes, i + 1,
             Append(resp, [ID |-> scopes[i].ID,
                           NullifierSessionID |-> BigIntString(scopes[i].PubSignals.NullifierSessionID),
                           Nullifier |-> BigIntString(scopes[i].PubSignals.Nullifier)]))

\* Mutant: a first scope of another circuit family is an error
getVerificationResponseScopes_OtherFamilyFails(scopes) ==
    IF Len(scopes) = 0 THEN Err("scopes are empty")
    ELSE IF scopes[1].CircuitID # AtomicQueryV3CircuitID THEN Err("invalid pub signals")
    ELSE responseScopesFrom(scopes, 1, <<>>)

getVerificationResponseScopes(scopes) ==
    IF Len(scopes) = 0 THEN Err("scopes are empty")
    ELSE IF scopes[1].CircuitID # AtomicQueryV3CircuitID THEN Ok(<<>>)
    ELSE responseScopesFrom(scopes, 1, <<>>)

\* Mutant: the nullifier list is set even when there are no scopes
getStatusVerificationResponse_AlwaysList(verification) ==
    JSONResponse(200,
        [Status |-> statusSuccess,
         Message |-> None,
         Jwz |-> Some(verification.Jwz),
         JwzMetadata |-> Some([UserDID |-> verification.UserDID,
                               Nullifiers |->
                                   Some([i \in 1..Len(verification.Scopes) |->
                                            [ScopeID |-> verification.Scopes[i].ID,
                                             NullifierSessionID |-> verification.Scopes[i].NullifierSessionID,
                                             Nullifier |-> verification.Scopes[i].Nullifier]])])])

getStatusVerificationResponse(verification) ==
    JSONResponse(200,
        [Status |-> statusSuccess,
         Message |-> None,
         Jwz |-> Some(verification.Jwz),
         JwzMetadata |-> Some([UserDID |-> verification.UserDID,
                               Nullifiers |->
                                   IF Len(verification.Scopes) > 0
                                   THEN Some([i \in 1..Len(verification.Scopes) |->
                                            [ScopeID |-> verification.Scopes[i].ID,
                                             NullifierSessionID |-> verification.Scopes[i].NullifierSessionID,
                                             Nullifier |-> verification.Scopes[i].Nullifier]])
                                   ELSE None])])

\* Mutant: a cached value of an unexpected type is answered like a missing one
StatusResponse_UnknownIsNotFound(c, t, id) ==
    LET item == cacheGet(c, t, UUIDString(id))
    IN IF IsNil(item) \/ Deref(item).kind \notin {"AuthorizationRequestMessage", "error", "VerificationResponse"}
       THEN JSONResponse(404, ErrorBody("sessionID not found"))
       ELSE IF Deref(item).kind = "AuthorizationRequestMessage"
       THEN JSONResponse(200, [Status |-> statusPending, Message |-> None,
                               Jwz |-> None, JwzMetadata |-> None])
       ELSE IF Deref(item).kind = "error"
       THEN JSONResponse(200, [Status |-> statusError, Message |-> Some(Deref(item).cause),
                               Jwz |-> None, JwzMetadata |-> None])
       ELSE getStatusVerificationResponse(Deref(item))

\* Server.Status as a function of the cache
StatusResponse(c, t, id) ==
    LET item == cacheGet(c, t, UUIDString(id))
    IN IF IsNil(item) THEN JSONResponse(404, ErrorBody("sessionID not found"))
       ELSE LET value == Deref(item)
            IN CASE value.kind = "AuthorizationRequestMessage" ->
                        JSONResponse(200, [Status |-> statusPending, Message |-> None,
                                           Jwz |-> None, JwzMetadata |-> None])
                 [] value.kind = "error" ->
                        JSONResponse(200, [Status |-> statusError, Message |-> Some(value.cause),
                                           Jwz |-> None, JwzMetadata |-> None])
                 [] value.kind = "VerificationResponse" -> getStatusVerificationResponse(value)
                 [] OTHER -> NilResponse

\* Mutant: a missing QR code is answered like a missing session
QRCodeResponse_NotFound(c, t, id) ==
    LET qrCode == QRcodeStoreGet(c, t, id)
    IN IF qrCode.kind # "ok"
       THEN JSONResponse(404, ErrorBody(qrCode.msg))
       ELSE JSONResponse(200, qrCode.val)

\* Server.GetQRCodeFromStore as a function of the cache
QRCodeResponse(c, t, id) ==
    LET qrCode == QRcodeStoreGet(c, t, id)
    IN IF qrCode.kind # "ok"
       THEN JSONResponse(500, ErrorBody("Error getting QRCode: " \o qrCode.msg))
       ELSE JSONResponse(200, qrCode.val)

-----------------------------------------------------------------------------
(* Inputs *)

Workers == 1..MaxWorkers

Host == "http://localhost"

\* The configured cache expirations, in clock ticks (an hour is OneHour ticks)
CacheExpirations == {1}

\* chain id -> sender DID, as parsed from the resolver settings
senderDIDs == [c \in {mumbaiNetwork, amoyNetwork} |-> "did:polygonid:polygon:" \o c \o ":sender"]

ValidQuery == [context |-> "ipfs://ctx", type |-> "KYCAgeCredential", allowedIssuers |-> "*"]
OtherQuery == [context |-> "ipfs://other", type |-> "TestInteger01", allowedIssuers |-> "*"]

ValidTransactionData ==
    [ContractAddress |-> "0x36", MethodID |-> "b68967e2", ChainID |-> 80002, Network |-> "polygon-amoy"]

OtherTransactionData ==
    [ContractAddress |-> "0x7f", MethodID |-> "b68967e2", ChainID |-> 80001, Network |-> "polygon-mumbai"]

ScopeRequest(id, circuitId, query, params) ==
    [Id |-> id, CircuitId |-> circuitId, Query |-> query, Params |-> params]

Body(chainID, scope, to, transactionData) ==
    [ChainID |-> chainID, Scope |-> scope, To |-> to, Reason |-> None,
     TransactionData |-> transactionData]

V3Body ==
    Body(Some(amoyNetwork),
         <<ScopeRequest(2, AtomicQueryV3CircuitID, Some(ValidQuery),
                        Some([nullifierSessionID |-> JSONString(<<"0", "7">>)])),
           ScopeRequest(1, AtomicQueryV3CircuitID, Some(OtherQuery), None)>>,
         Some("did:polygonid:user"), None)

OnChainBody ==
    Body(None,
         <<ScopeRequest(1, AtomicQueryV3OnChainCircuitID, Some(ValidQuery), None)>>,
         None, Some(ValidTransactionData))

EmptyBody == Body(Some(mumbaiNetwork), <<>>, None, None)

\* The sign-in bodies of the lifecycle specifications
Requests == {V3Body, OnChainBody, EmptyBody}

\* Sign-in bodies for every branch of SignIn: scopes that fail one check each
\* or carry params, alone, after a good scope, and next to a scope with the
\* same id.
NoContextQuery == [type |-> "KYCAgeCredential", allowedIssuers |-> "*"]
EmptyContextQuery == [context |-> "", type |-> "KYCAgeCredential", allowedIssuers |-> "*"]
NoTypeQuery == [context |-> "ipfs://ctx", allowedIssuers |-> "*"]
NoIssuersQuery == [context |-> "ipfs://ctx", type |-> "KYCAgeCredential"]

BadQueries == {None, Some(NoContextQuery), Some(EmptyContextQuery), Some(NoTypeQuery), Some(NoIssuersQuery)}

ParamsValues ==
    {[nullifierSessionID |-> JSONString(<<"-", "7">>)],
     [nullifierSessionID |-> JSONString(<<"0", "0", "7">>)],
     [nullifierSessionID |-> JSONString(<<"0", "x">>)],
     [nullifierSessionID |-> JSONString(<<"1", "a">>)],
     [nullifierSessionID |-> JSONNumber],
     [sessionID |-> JSONString(<<"7">>)]}

GoodScope(id, circuitId) == ScopeRequest(id, circuitId, Some(ValidQuery), None)

BadScopes(id, circuitId, otherFamily) ==
    {ScopeRequest(id, circuitId, q, None) : q \in BadQueries}
    \cup {ScopeRequest(id, c, Some(ValidQuery), None) : c \in {"", "bogus", otherFamily}}
    \cup {ScopeRequest(0, circuitId, Some(ValidQuery), None)}
    \cup {ScopeRequest(id, circuitId, Some(ValidQuery), Some(ps)) : ps \in ParamsValues}

\* one scope; a good scope then one with another id; two scopes with one id
ScopeLists(circuitId, otherFamily) ==
    LET good == GoodScope(1, circuitId)
        bad == BadScopes(1, circuitId, otherFamily)
    IN {<<sc>> : sc \in bad}
       \cup {<<GoodScope(2, circuitId), sc>> : sc \in bad}
       \cup {<<sc, good>> : sc \in bad}
       \cup {<<good, sc>> : sc \in bad}
       \cup {<<good, good>>, <<good, GoodScope(2, circuitId), good>>}

BadTransactionData ==
    {None,
     Some([ValidTransactionData EXCEPT !.ChainID = 0]),
     Some([ValidTransactionData EXCEPT !.ChainID = 137]),
     Some([ValidTransactionData EXCEPT !.ContractAddress = ""]),
     Some([ValidTransactionData EXCEPT !.MethodID = ""]),
     Some([ValidTransactionData EXCEPT !.Network = ""]),
     Some([ValidTransactionData EXCEPT !.ContractAddress = "", !.MethodID = ""]),
     Some([ValidTransactionData EXCEPT !.MethodID = "", !.Network = ""]),
     Some([ValidTransactionData EXCEPT !.ChainID = 0, !.ContractAddress = "", !.Network = ""]),
     Some([ValidTransactionData EXCEPT !.ChainID = 137, !.Network = ""])}

SignInInputs ==
    Requests
    \cup {Body(Some(amoyNetwork), scope, None, None) :
             scope \in ScopeLists(AtomicQueryV3CircuitID, AtomicQueryV3OnChainCircuitID)}
    \cup {Body(None, scope, None, Some(ValidTransactionData)) :
             scope \in ScopeLists(AtomicQueryV3OnChainCircuitID, AtomicQueryV3CircuitID)}
    \cup {Body(chainID, scope, None, None) :
             chainID \in {None, Some(mainnetNetwork), Some("12345")},
             scope \in {<<GoodScope(1, AtomicQuerySigV2CircuitID)>>,
                        <<GoodScope(1, AtomicQueryMTPV2CircuitID), GoodScope(1, AtomicQueryMTPV2CircuitID)>>}}
    \cup {Body(None, scope, None, td) :
             td \in BadTransactionData,
             scope \in {<<GoodScope(1, AtomicQuerySigV2OnChainCircuitID)>>,
                        <<GoodScope(1, AtomicQueryMTPV2OnChainCircuitID), GoodScope(1, AtomicQueryMTPV2OnChainCircuitID)>>}}
    \cup {Body(None, <<GoodScope(1, AtomicQueryV3OnChainCircuitID)>>, to, Some(td)) :
             to \in {None, Some("did:polygonid:user")},
             td \in {ValidTransactionData, OtherTransactionData}}

Tokens == {"jwz-a", "jwz-b"}

UUIDs == 1..MaxUUID

\* What the external verifier can answer: a rejection with a cause, or the
\* verified response message (its sender and its scopes).
Causes == {"proof is not valid", "state is expired"}
UserDIDs == {"did:polygonid:user"}

GoodPubSignals(id) == [valid |-> TRUE, NullifierSessionID |-> 7, Nullifier |-> 10 + id]
BadPubSignals == [valid |-> FALSE, NullifierSessionID |-> 0, Nullifier |-> 0]

ScopeIDs == {1, 2}

ResponseScopes ==
    {[ID |-> id, CircuitID |-> AtomicQueryV3CircuitID, PubSignals |-> GoodPubSignals(id)] : id \in ScopeIDs}
    \cup {[ID |-> 1, CircuitID |-> AtomicQuerySigV2CircuitID, PubSignals |-> BadPubSignals],
          [ID |-> 1, CircuitID |-> AtomicQueryV3CircuitID, PubSignals |-> BadPubSignals]}

ResponseScopeLists == UNION {[1..n -> ResponseScopes] : n \in 0..MaxRespScopes}

Rejected(c) == [ok |-> FALSE, cause |-> c, From |-> "", Scope |-> <<>>]
Verified(d, sc) == [ok |-> TRUE, cause |-> "", From |-> d, Scope |-> sc]

VerifierOutcomes ==
    {Rejected(c) : c \in Causes} \cup {Verified(d, sc) : d \in UserDIDs, sc \in ResponseScopeLists}

\* The inputs used where requests overlap: an off-chain body and a refused
\* one, one token, and of the verifier's answers one cause and one V3 scope,
\* with signals that decode or not.
RaceRequests == {V3Body, EmptyBody}
RaceTokens == {"jwz-a"}

RaceOutcomes ==
    {o \in VerifierOutcomes :
        /\ Len(o.Scope) = (IF o.ok THEN 1 ELSE 0)
        /\ \A i \in 1..Len(o.Scope) :
              o.Scope[i].ID = 1 /\ o.Scope[i].CircuitID = AtomicQueryV3CircuitID
        /\ o.cause \in {"", "proof is not valid"}}

-----------------------------------------------------------------------------
(* State *)

NoOutcome == Rejected("")

Idle == [pc |-> "idle", op |-> "", sessionID |-> 0, token |-> "", body |-> None,
         msg |-> None, out |-> NoOutcome, t0 |-> 0]

NoLast == [op |-> "", id |-> 0, token |-> "", body |-> None, resp |-> NilResponse]

Completed(op, id, token, body, resp) ==
    [op |-> op, id |-> id, token |-> token, body |-> body, resp |-> resp]

InitCommon ==
    /\ cfg \in {[Host |-> Host, CacheExpiration |-> ttl] : ttl \in CacheExpirations}
    /\ cache = <<>>
    /\ now = 0
    /\ nextUUID = 1
    /\ workers = [w \in Workers |-> Idle]
    /\ last = NoLast
    /\ issued = {}

Init ==
    /\ InitCommon
    /\ input = EmptyBody

-----------------------------------------------------------------------------
(* Server.SignIn *)

\* Mutant: a first scope of an unknown circuit is handled as off-chain
SignInBuild_DefaultOffChain(config, body, sessionID, id) ==
    IF Len(body.Scope) = 0 THEN Err("field scope is empty")
    ELSE IF body.Scope[1].CircuitId \in OnChainCircuits
        THEN getContractInvokeRequestOnChain(senderDIDs, body, id)
    ELSE getAuthRequestOffChain(config, senderDIDs, body, sessionID, id)

\* SignIn up to its first cache write: the built message or the failure
SignInBuild(config, body, sessionID, id) ==
    IF Len(body.Scope) = 0 THEN Err("field scope is empty")
    ELSE IF body.Scope[1].CircuitId \in OffChainCircuits
        THEN getAuthRequestOffChain(config, senderDIDs, body, sessionID, id)
    ELSE IF body.Scope[1].CircuitId \in OnChainCircuits
        THEN getContractInvokeRequestOnChain(senderDIDs, body, id)
    ELSE Err("invalid circuitID")

\* the QR code of a stored request, by its message kind
QRCodeOf(msg) ==
    IF msg.kind = "AuthorizationRequestMessage" THEN getAuthReqQRCode(msg)
    ELSE getInvokeContractQRCode(msg)

\* Mutant: every session is stored under the id drawn first
SignInStore_FirstId(w, body, sessionID, msg) ==
    /\ cache' = cacheSet(cache, now, UUIDString(1), msg,
                         DefaultExpiration, cfg.CacheExpiration)
    /\ nextUUID' = nextUUID + 2
    /\ workers' = [workers EXCEPT ![w] =
          [Idle EXCEPT !.pc = "SignInSave", !.op = "SignIn", !.sessionID = 1,
                       !.body = Some(body), !.msg = Some(msg), !.t0 = now]]
    /\ UNCHANGED <<last, issued>>

\* The request was built: s.cache.Set(sessionID.String(), authReq, cache.DefaultExpiration)
SignInStore(w, body, sessionID, msg) ==
    /\ cache' = cacheSet(cache, now, UUIDString(sessionID), msg,
                         DefaultExpiration, cfg.CacheExpiration)
    /\ nextUUID' = nextUUID + 2
    /\ workers' = [workers EXCEPT ![w] =
          [Idle EXCEPT !.pc = "SignInSave", !.op = "SignIn", !.sessionID = sessionID,
                       !.body = Some(body), !.msg = Some(msg), !.t0 = now]]
    /\ UNCHANGED <<last, issued>>

\* Mutant: the refused request is stored under a session id all the same
SignInReject_Stores(w, body, res) ==
    /\ last' = Completed("SignIn", 0, "", Some(body),
                         IF res.kind = "panic" THEN PanicResponse
                         ELSE JSONResponse(400, ErrorBody(res.msg)))
    /\ cache' = cacheSet(cache, now, UUIDString(nextUUID), ErrorValue(res.msg),
                         DefaultExpiration, cfg.CacheExpiration)
    /\ UNCHANGED <<nextUUID, workers, issued>>

\* The request was refused: the 400 response (or the panic) and nothing else
SignInReject(w, body, res) ==
    /\ last' = Completed("SignIn", 0, "", Some(body),
                         IF res.kind = "panic" THEN PanicResponse
                         ELSE JSONResponse(400, ErrorBody(res.msg)))
    /\ UNCHANGED <<cache, nextUUID, workers, issued>>

\* Each request runs on its own goroutine; the goroutines are interchangeable,
\* so a new request takes the first free one.
IsFree(w) == workers[w].pc = "idle" /\ \A v \in 1..(w - 1) : workers[v].pc # "idle"

\* uuid.New() yields an id never returned before: the least id not drawn yet.
\* An id drawn by a SignIn that fails is never stored or returned and is not
\* counted as drawn.
\* limit: the number of ids that may be drawn.
SignInTo(w, body, limit) ==
    /\ IsFree(w)
    /\ LET sessionID == nextUUID
           res == SignInBuild(cfg, body, sessionID, nextUUID + 1)
       IN IF res.kind = "ok"
          THEN /\ nextUUID + 2 + Cardinality({v \in Workers : workers[v].pc = "SignInSave"}) <= limit
               /\ SignInStore(w, body, sessionID, res.val)
          ELSE SignInReject(w, body, res)
    /\ UNCHANGED <<cfg, now, input>>

SignIn(w, body) == SignInTo(w, body, MaxUUID)

\* qrStore.Save and the 200 response
SignInSave(w) ==
    /\ workers[w].pc = "SignInSave"
    /\ LET qrID == nextUUID
           me == workers[w]
           resp == JSONResponse(200, [QrCode |-> QrCodeURL(cfg, qrID), SessionID |-> me.sessionID])
       IN /\ cache' = QRcodeStoreSave(cache, now, qrID, QRCodeOf(Deref(me.msg)), cfg.CacheExpiration)
          /\ nextUUID' = nextUUID + 1
          /\ issued' = issued \cup {[sessionID |-> me.sessionID, qrID |-> qrID, body |-> Deref(me.body),
                                     msg |-> Deref(me.msg), t0 |-> me.t0, tQR |-> now]}
          /\ last' = Completed("SignIn", me.sessionID, "", me.body, resp)
          /\ workers' = [workers EXCEPT ![w] = Idle]
    /\ UNCHANGED <<cfg, now, input>>

-----------------------------------------------------------------------------
(* Server.Callback: the cache read, the verifier call and the cache write *)

CastFailure == "failed to cast authRequest to AuthorizationRequestMessage"

\* Mutant: a missing session is recorded as a failed one
Callback_StoresNotFound(w, sessionID, token) ==
    /\ IsFree(w)
    /\ LET authRequest == cacheGet(cache, now, UUIDString(sessionID))
       IN IF IsNil(authRequest)
          THEN /\ last' = Completed("Callback", sessionID, token, None, GoError("sessionID not found"))
               /\ cache' = cacheSet(cache, now, UUIDString(sessionID), ErrorValue("sessionID not found"),
                                    DefaultExpiration, cfg.CacheExpiration)
               /\ UNCHANGED workers
          ELSE IF Deref(authRequest).kind # "AuthorizationRequestMessage"
          THEN /\ last' = Completed("Callback", sessionID, token, None,
                                    JSONResponse(500, ErrorBody(CastFailure)))
               /\ UNCHANGED <<workers, cache>>
          ELSE /\ workers' = [workers EXCEPT ![w] =
                     [Idle EXCEPT !.pc = "CallbackVerify", !.op = "Callback",
                                  !.sessionID = sessionID, !.token = token, !.msg = authRequest]]
               /\ UNCHANGED <<last, cache>>
    /\ UNCHANGED <<cfg, now, nextUUID, issued, input>>

\* Mutant: the type assertion on the cached value is skipped
Callback_NoCast(w, sessionID, token) ==
    /\ IsFree(w)
    /\ LET authRequest == cacheGet(cache, now, UUIDString(sessionID))
       IN IF IsNil(authRequest)
          THEN /\ last' = Completed("Callback", sessionID, token, None, GoError("sessionID not found"))
               /\ UNCHANGED workers
          ELSE /\ workers' = [workers EXCEPT ![w] =
                     [Idle EXCEPT !.pc = "CallbackVerify", !.op = "Callback",
                                  !.sessionID = sessionID, !.token = token, !.msg = authRequest]]
               /\ UNCHANGED last
    /\ UNCHANGED <<cfg, cache, now, nextUUID, issued, input>>

\* Mutant: the request is taken out of the store while it is verified
Callback_TakesRequest(w, sessionID, token) ==
    /\ IsFree(w)
    /\ LET authRequest == cacheGet(cache, now, UUIDString(sessionID))
       IN IF IsNil(authRequest)
          THEN /\ last' = Completed("Callback", sessionID, token, None, GoError("sessionID not found"))
               /\ UNCHANGED <<workers, cache>>
          ELSE IF Deref(authRequest).kind # "AuthorizationRequestMessage"
          THEN /\ last' = Completed("Callback", sessionID, token, None,
                                    JSONResponse(500, ErrorBody(CastFailure)))
               /\ UNCHANGED <<workers, cache>>
          ELSE /\ workers' = [workers EXCEPT ![w] =
                     [Idle EXCEPT !.pc = "CallbackVerify", !.op = "Callback",
                                  !.sessionID = sessionID, !.token = token, !.msg = authRequest]]
               /\ cache' = [k \in DOMAIN cache \ {UUIDString(sessionID)} |-> cache[k]]
               /\ UNCHANGED last
    /\ UNCHANGED <<cfg, now, nextUUID, issued, input>>

\* Mutant: the request is read under the id drawn first, whatever the session
Callback_ReadsFirstSession(w, sessionID, token) ==
    /\ IsFree(w)
    /\ LET authRequest == cacheGet(cache, now, UUIDString(1))
       IN IF IsNil(authRequest)
          THEN /\ last' = Completed("Callback", sessionID, token, None, GoError("sessionID not found"))
               /\ UNCHANGED workers
          ELSE IF Deref(authRequest).kind # "AuthorizationRequestMessage"
          THEN /\ last' = Completed("Callback", sessionID, token, None,
                                    JSONResponse(500, ErrorBody(CastFailure)))
               /\ UNCHANGED workers
          ELSE /\ workers' = [workers EXCEPT ![w] =
                     [Idle EXCEPT !.pc = "CallbackVerify", !.op = "Callback",
                                  !.sessionID = sessionID, !.token = token, !.msg = authRequest]]
               /\ UNCHANGED last
    /\ UNCHANGED <<cfg, cache, now, nextUUID, issued, input>>

Callback(w, sessionID, token) ==
    /\ IsFree(w)
    /\ LET authRequest == cacheGet(cache, now, UUIDString(sessionID))
       IN IF IsNil(authRequest)
          THEN /\ last' = Completed("Callback", sessionID, token, None, GoError("sessionID not found"))
               /\ UNCHANGED workers
          ELSE IF Deref(authRequest).kind # "AuthorizationRequestMessage"
          THEN /\ last' = Completed("Callback", sessionID, token, None,
                                    JSONResponse(500, ErrorBody(CastFailure)))
               /\ UNCHANGED workers
          ELSE /\ workers' = [workers EXCEPT ![w] =
                     [Idle EXCEPT !.pc = "CallbackVerify", !.op = "Callback",
                                  !.sessionID = sessionID, !.token = token, !.msg = authRequest]]
               /\ UNCHANGED last
    /\ UNCHANGED <<cfg, cache, now, nextUUID, issued, input>>

\* s.verifier.FullVerify answers with one of the outcomes
CallbackVerify(w, outcomes) ==
    /\ workers[w].pc = "CallbackVerify"
    /\ \E out \in outcomes :
          workers' = [workers EXCEPT ![w] = [@ EXCEPT !.pc = "CallbackSet", !.out = out]]
    /\ UNCHANGED <<cfg, cache, now, nextUUID, last, issued, input>>

\* Mutant: the result is not stored once the session holds a terminal value
CallbackSet_FirstWriterWins(w) ==
    /\ workers[w].pc = "CallbackSet"
    /\ LET me == workers[w]
           scopes == getVerificationResponseScopes(me.out.Scope)
           held == cacheGet(cache, now, UUIDString(me.sessionID))
           settled == ~IsNil(held) /\ Deref(held).kind # "AuthorizationRequestMessage"
       IN IF ~me.out.ok
          THEN /\ cache' = IF settled THEN cache
                           ELSE cacheSet(cache, now, UUIDString(me.sessionID), ErrorValue(me.out.cause),
                                         DefaultExpiration, cfg.CacheExpiration)
               /\ last' = Completed("Callback", me.sessionID, me.token, None,
                                    JSONResponse(500, ErrorBody(me.out.cause)))
          ELSE IF scopes.kind # "ok"
          THEN /\ last' = Completed("Callback", me.sessionID, me.token, None,
                                    JSONResponse(500, ErrorBody(scopes.msg)))
               /\ UNCHANGED cache
          ELSE /\ cache' = IF settled THEN cache
                           ELSE cacheSet(cache, now, UUIDString(me.sessionID),
                                         VerificationResponse(me.token, me.out.From, scopes.val),
                                         DefaultExpiration, cfg.CacheExpiration)
               /\ last' = Completed("Callback", me.sessionID, me.token, None,
                                    JSONResponse(200, [ok |-> TRUE]))
    /\ workers' = [workers EXCEPT ![w] = Idle]
    /\ UNCHANGED <<cfg, now, nextUUID, issued, input>>

\* Mutant: a rejection is answered but not stored
CallbackSet_NoErrorWrite(w) ==
    /\ workers[w].pc = "CallbackSet"
    /\ LET me == workers[w]
           scopes == getVerificationResponseScopes(me.out.Scope)
       IN IF ~me.out.ok
          THEN /\ last' = Completed("Callback", me.sessionID, me.token, None,
                                    JSONResponse(500, ErrorBody(me.out.cause)))
               /\ UNCHANGED cache
          ELSE IF scopes.kind # "ok"
          THEN /\ last' = Completed("Callback", me.sessionID, me.token, None,
                                    JSONResponse(500, ErrorBody(scopes.msg)))
               /\ UNCHANGED cache
          ELSE /\ cache' = cacheSet(cache, now, UUIDString(me.sessionID),
                                    VerificationResponse(me.token, me.out.From, scopes.val),
                                    DefaultExpiration, cfg.CacheExpiration)
               /\ last' = Completed("Callback", me.sessionID, me.token, None,
                                    JSONResponse(200, [ok |-> TRUE]))
    /\ workers' = [workers EXCEPT ![w] = Idle]
    /\ UNCHANGED <<cfg, now, nextUUID, issued, input>>

\* The rest of Callback: Error(cause) is stored on a rejection; on success the
\* response scopes are decoded, a decoding failure returns without a write,
\* and otherwise the verification response is stored.
\* Mutant: a response whose scopes do not decode is stored as a failure
CallbackSet_StoresDecodeFailure(w) ==
    /\ workers[w].pc = "CallbackSet"
    /\ LET me == workers[w]
           scopes == getVerificationResponseScopes(me.out.Scope)
       IN IF ~me.out.ok
          THEN /\ cache' = cacheSet(cache, now, UUIDString(me.sessionID), ErrorValue(me.out.cause),
                                    DefaultExpiration, cfg.CacheExpiration)
               /\ last' = Completed("Callback", me.sessionID, me.token, None,
                                    JSONResponse(500, ErrorBody(me.out.cause)))
          ELSE IF scopes.kind # "ok"
          THEN /\ last' = Completed("Callback", me.sessionID, me.token, None,
                                    JSONResponse(500, ErrorBody(scopes.msg)))
               /\ cache' = cacheSet(cache, now, UUIDString(me.sessionID), ErrorValue(scopes.msg),
                                    DefaultExpiration, cfg.CacheExpiration)
          ELSE /\ cache' = cacheSet(cache, now, UUIDString(me.sessionID),
                                    VerificationResponse(me.token, me.out.From, scopes.val),
                                    DefaultExpiration, cfg.CacheExpiration)
               /\ last' = Completed("Callback", me.sessionID, me.token, None,
                                    JSONResponse(200, [ok |-> TRUE]))
    /\ workers' = [workers EXCEPT ![w] = Idle]
    /\ UNCHANGED <<cfg, now, nextUUID, issued, input>>

CallbackSet(w) ==
    /\ workers[w].pc = "CallbackSet"
    /\ LET me == workers[w]
           scopes == getVerificationResponseScopes(me.out.Scope)
       IN IF ~me.out.ok
          THEN /\ cache' = cacheSet(cache, now, UUIDString(me.sessionID), ErrorValue(me.out.cause),
                                    DefaultExpiration, cfg.CacheExpiration)
               /\ last' = Completed("Callback", me.sessionID, me.token, None,
                                    JSONResponse(500, ErrorBody(me.out.cause)))
          ELSE IF scopes.kind # "ok"
          THEN /\ last' = Completed("Callback", me.sessionID, me.token, None,
                                    JSONResponse(500, ErrorBody(scopes.msg)))
               /\ UNCHANGED cache
          ELSE /\ cache' = cacheSet(cache, now, UUIDString(me.sessionID),
                                    VerificationResponse(me.token, me.out.From, scopes.val),
                                    DefaultExpiration, cfg.CacheExpiration)
               /\ last' = Completed("Callback", me.sessionID, me.token, None,
                                    JSONResponse(200, [ok |-> TRUE]))
    /\ workers' = [workers EXCEPT ![w] = Idle]
    /\ UNCHANGED <<cfg, now, nextUUID, issued, input>>

-----------------------------------------------------------------------------
(* Server.Status and Server.GetQRCodeFromStore *)

\* Both handlers are a single cache read: they hold no goroutine between steps.
\* Mutant: a Status read renews the entry it finds
Status_Renews(id) ==
    /\ last' = Completed("Status", id, "", None, StatusResponse(cache, now, id))
    /\ cache' = IF IsNil(cacheGet(cache, now, UUIDString(id))) THEN cache
                ELSE cacheSet(cache, now, UUIDString(id), Deref(cacheGet(cache, now, UUIDString(id))),
                              DefaultExpiration, cfg.CacheExpiration)
    /\ UNCHANGED <<cfg, now, nextUUID, workers, issued, input>>

Status(id) ==
    /\ last' = Completed("Status", id, "", None, StatusResponse(cache, now, id))
    /\ UNCHANGED <<cfg, cache, now, nextUUID, workers, issued, input>>

GetQRCodeFromStore(id) ==
    /\ last' = Completed("GetQRCodeFromStore", id, "", None, QRCodeResponse(cache, now, id))
    /\ UNCHANGED <<cfg, cache, now, nextUUID, workers, issued, input>>

-----------------------------------------------------------------------------
(* Time and the cache janitor *)

TickTo(limit) ==
    /\ now < limit
    /\ now' = now + 1
    /\ UNCHANGED <<cfg, cache, nextUUID, workers, last, issued, input>>

Tick == TickTo(MaxTime)

DeleteExpired ==
    /\ \E k \in DOMAIN cache : Expired(cache[k], now)
    /\ cache' = cacheDeleteExpired(cache, now)
    /\ UNCHANGED <<cfg, now, nextUUID, workers, last, issued, input>>

-----------------------------------------------------------------------------
(* Specification of the session lifecycle with overlapping requests *)

Next ==
    \/ \E w \in Workers, body \in RaceRequests : SignIn(w, body)
    \/ \E w \in Workers : SignInSave(w)
    \/ \E w \in Workers, id \in UUIDs, token \in RaceTokens : Callback(w, id, token)
    \/ \E w \in Workers : CallbackVerify(w, RaceOutcomes)
    \/ \E w \in Workers : CallbackSet(w)
    \/ \E id \in UUIDs : Status(id)
    \/ \E id \in UUIDs : GetQRCodeFromStore(id)
    \/ Tick
    \/ DeleteExpired

Spec == Init /\ [][Next]_vars

(* Specification of the session lifecycle, one request at a time, with every
   answer of the verifier *)

NextSeq ==
    \/ \E body \in Requests : SignIn(1, body)
    \/ SignInSave(1)
    \/ \E id \in UUIDs, token \in Tokens : Callback(1, id, token)
    \/ CallbackVerify(1, VerifierOutcomes)
    \/ CallbackSet(1)
    \/ \E id \in UUIDs : Status(id)
    \/ \E id \in UUIDs : GetQRCodeFromStore(id)
    \/ Tick
    \/ DeleteExpired

SpecSeq == Init /\ [][NextSeq]_vars

(* Specification of SignIn over its inputs: one body is chosen at the start
   and signed in, before or after a body that is accepted *)

InitSignIn ==
    /\ InitCommon
    /\ input \in SignInInputs

NextSignIn ==
    \/ \E body \in {input, V3Body} : SignIn(1, body)
    \/ SignInSave(1)
    \/ \E id \in UUIDs : Status(id)
    \/ \E id \in UUIDs : GetQRCodeFromStore(id)

SpecSignIn == InitSignIn /\ [][NextSignIn]_vars

(* Specification of the expirations: the server is built from the loaded
   configuration, with the cache expiration unset, shorter or longer than the
   hour of the QR store, and runs one request at a time past both *)

\* VERIFIER_BACKEND_CACHE_EXPIRATION: unset, 30m or 90m
Environments == {None, Some(1), Some(3)}

\* config.Load: the environment's value, or the default of the field
Load(env) ==
    [Host |-> Host,
     CacheExpiration |-> IF IsNil(env) THEN DefaultCacheExpiration ELSE Deref(env)]

InitTTL ==
    /\ cfg \in {Load(env) : env \in Environments}
    /\ cache = <<>>
    /\ now = 0
    /\ nextUUID = 1
    /\ workers = [w \in Workers |-> Idle]
    /\ last = NoLast
    /\ issued = {}
    /\ input = EmptyBody

NextTTL ==
    \/ \E body \in RaceRequests : SignIn(1, body)
    \/ SignInSave(1)
    \/ \E id \in UUIDs, token \in RaceTokens : Callback(1, id, token)
    \/ CallbackVerify(1, RaceOutcomes)
    \/ CallbackSet(1)
    \/ \E id \in UUIDs : Status(id)
    \/ \E id \in UUIDs : GetQRCodeFromStore(id)
    \/ TickTo(MaxTimeTTL)
    \/ DeleteExpired

SpecTTL == InitTTL /\ [][NextTTL]_vars

(* Specification of two sessions side by side: two SignIns, off-chain or
   on-chain, and the Callbacks on them, overlapping; time stands still *)

PairUUIDs == 1..MaxPairUUID
PairRequests == {V3Body, OnChainBody}

NextPair ==
    \/ \E w \in Workers, body \in PairRequests : SignInTo(w, body, MaxPairUUID)
    \/ \E w \in Workers : SignInSave(w)
    \/ \E w \in Workers, id \in PairUUIDs, token \in RaceTokens : Callback(w, id, token)
    \/ \E w \in Workers : CallbackVerify(w, RaceOutcomes)
    \/ \E w \in Workers : CallbackSet(w)

SpecPair == Init /\ [][NextPair]_vars

-----------------------------------------------------------------------------
(* Claims *)

Terminal(v) == v.kind \in {"error", "VerificationResponse"}

\* the bodies that a behaviour of SpecSignIn signs in: the one drawn at the
\* start, any of SignInInputs, and the accepted one
SignedIn == {input, V3Body}

SessionKey(id) == UUIDString(id)

Holds(id) == SessionKey(id) \in DOMAIN cache
HoldsTerminal(id) == Holds(id) /\ Terminal(cache[SessionKey(id)].Object)

\* a callback in flight on session id that read the pending request
PendingReader(w, id) ==
    /\ workers[w].pc \in {"CallbackVerify", "CallbackSet"}
    /\ workers[w].sessionID = id
    /\ ~IsNil(workers[w].msg)
    /\ Deref(workers[w].msg).kind = "AuthorizationRequestMessage"

\* C1 as stated: once a session holds Error or Verified, no step gives it a
\* different value; the entry only disappears by eviction after its TTL.
C1_TerminalNeverChanges ==
    [][\A id \in UUIDs :
          HoldsTerminal(id) =>
              IF SessionKey(id) \in DOMAIN cache'
              THEN cache'[SessionKey(id)].Object = cache[SessionKey(id)].Object
              ELSE Expired(cache[SessionKey(id)], now)]_vars

\* C1 amended: a terminal value is never set back to Pending; it is replaced
\* only by another terminal value, and only by the cache write of a Callback
\* that had read the session while it was Pending; only eviction after the TTL
\* removes the entry.
C1_TerminalChangedOnlyByPendingReader ==
    [][\A id \in UUIDs :
          HoldsTerminal(id) =>
              \/ /\ SessionKey(id) \in DOMAIN cache'
                 /\ cache'[SessionKey(id)].Object = cache[SessionKey(id)].Object
              \/ /\ SessionKey(id) \notin DOMAIN cache'
                 /\ Expired(cache[SessionKey(id)], now)
              \/ /\ SessionKey(id) \in DOMAIN cache'
                 /\ Terminal(cache'[SessionKey(id)].Object)
                 /\ \E w \in Workers :
                       /\ PendingReader(w, id)
                       /\ workers[w].pc = "CallbackSet"
                       /\ workers'[w].pc = "idle"]_vars

\* C1 witness: a session holds Error while an overlapping Callback that read
\* it as Pending, and whose verification succeeded, is about to write.
C1_Witness ==
    \E id \in UUIDs, w \in Workers :
        /\ HoldsTerminal(id)
        /\ cache[SessionKey(id)].Object.kind = "error"
        /\ PendingReader(w, id)
        /\ workers[w].pc = "CallbackSet"
        /\ workers[w].out.ok

\* what Cache.Get finds under a session id
Stored(id) == cacheGet(cache, now, SessionKey(id))
StoresTerminal(id) == ~IsNil(Stored(id)) /\ Terminal(Deref(Stored(id)))

\* C2: a Callback that starts on a session holding Error or Verified answers
\* 500 with the cast failure, whatever the token, starts no verification and
\* leaves the cache as it was (so repeating it gives the same again).
C2_CallbackOnTerminalRejected ==
    [][\A w \in Workers, id \in UUIDs, token \in Tokens :
          (Callback(w, id, token) /\ StoresTerminal(id)) =>
              /\ last' = Completed("Callback", id, token, None,
                                   JSONResponse(500, ErrorBody(CastFailure)))
              /\ cache' = cache
              /\ workers' = workers]_vars

\* C2 witness: a Callback was answered with the cast failure on a session
\* that holds a terminal value.
C2_Witness ==
    /\ last.op = "Callback"
    /\ last.resp = JSONResponse(500, ErrorBody(CastFailure))
    /\ StoresTerminal(last.id)
    /\ last.token = "jwz-b"

\* the sign-ins that returned 200 and whose session still holds the request
\* they stored
FreshSession(id) == \E i \in issued : i.sessionID = id /\ Stored(id) = Some(i.msg)

\* C3 as stated: Status on a session that SignIn returned, before any Callback
\* and before its TTL, answers 200 with status pending, off-chain and on-chain.
C3_FreshSessionIsPending ==
    [][\A id \in UUIDs :
          (Status(id) /\ FreshSession(id)) =>
              /\ last'.resp.code = 200
              /\ last'.resp.body.Status = statusPending]_vars

\* C4: Status answers 404 'sessionID not found' exactly when the cache has no
\* live entry under the session id, be it never issued or evicted.
C4_StatusNotFoundIffAbsent ==
    [][\A id \in UUIDs :
          Status(id) =>
              LET absent == ~Holds(id) \/ Expired(cache[SessionKey(id)], now)
              IN /\ absent => last'.resp = JSONResponse(404, ErrorBody("sessionID not found"))
                 /\ ~absent => last'.resp.code # 404]_vars

\* C4 witness: Status answered 404 for a session id that a SignIn had
\* returned and whose entry has been evicted since.
C4_Witness ==
    /\ last.op = "Status"
    /\ last.resp.code = 404
    /\ \E i \in issued : i.sessionID = last.id /\ ~Holds(last.id)

\* the sender a request is built with: the configured sender of the chain
\* off-chain, the verifier contract's DID on-chain
BuiltFrom(body) ==
    IF body.Scope[1].CircuitId \in OffChainCircuits
    THEN senderDIDs[Deref(body.ChainID)]
    ELSE buildOnchainVerifierDID(Deref(body.TransactionData)).val

BuiltType(body) ==
    IF body.Scope[1].CircuitId \in OffChainCircuits
    THEN AuthorizationRequestMessageType
    ELSE ContractInvokeRequestMessageType

\* C5: GetQRCodeFromStore on the QR id of a successful SignIn, within the QR
\* TTL, answers 200 with a message whose scopes (ids, circuit ids, queries,
\* in order), sender, recipient, media type and message type are those of the
\* submitted body, and the message is the same at every read.
C5_QRRoundTrip ==
    [][\A id \in UUIDs :
          GetQRCodeFromStore(id) =>
              \A i \in issued :
                  (i.qrID = id /\ now <= i.tQR + OneHour) =>
                      LET m == last'.resp.body
                      IN /\ last'.resp = JSONResponse(200, QRCodeOf(i.msg))
                         /\ Len(m.Body.Scope) = Len(i.body.Scope)
                         /\ \A j \in 1..Len(i.body.Scope) :
                               /\ m.Body.Scope[j].Id = i.body.Scope[j].Id
                               /\ m.Body.Scope[j].CircuitId = i.body.Scope[j].CircuitId
                               /\ m.Body.Scope[j].Query = i.body.Scope[j].Query
                         /\ m.From = BuiltFrom(i.body)
                         /\ m.To = i.body.To
                         /\ m.Typ = MediaTypePlainMessage
                         /\ m.Type = BuiltType(i.body)]_vars

\* C5 witness: a QR code with two scopes was read back at a later time than
\* it was saved.
C5_Witness ==
    /\ last.op = "GetQRCodeFromStore"
    /\ last.resp.code = 200
    /\ \E i \in issued : i.qrID = last.id /\ Len(i.body.Scope) = 2 /\ now > i.tQR

\* C6: a SignIn answered with 400 leaves the cache, which holds the session
\* store and the QR store, as it was, and records no session.
C6_RejectedSignInWritesNothing ==
    [][\A w \in Workers, body \in SignedIn :
          (SignIn(w, body) /\ last'.body = Some(body) /\ last'.resp.code = 400) =>
              /\ cache' = cache
              /\ issued' = issued
              /\ workers' = workers]_vars

\* C6 witness: a body whose second scope lacks allowedIssuers was refused
\* while the cache held an earlier session and its QR code.
C6_Witness ==
    /\ last.op = "SignIn"
    /\ last.resp = JSONResponse(400, ErrorBody("allowedIssuers cannot be empty"))
    /\ Len(input.Scope) = 2
    /\ issued # {}
    /\ \A i \in issued : Holds(i.sessionID)

DuplicatedIds(body) ==
    {body.Scope[i].Id : i \in {k \in 1..Len(body.Scope) :
                                  \E j \in 1..Len(body.Scope) : j # k /\ body.Scope[j].Id = body.Scope[k].Id}}

UniqueMsg(id) == "field scope id must be unique, got " \o ToString(id) \o " multiple times"

\* C7 as stated: a SignIn of a body in which a scope id occurs twice is
\* answered with the uniqueness message citing a duplicated id, and nothing
\* is stored, whatever else the body contains.
C7_DuplicateIdAlwaysReported ==
    [][\A w \in Workers, body \in SignedIn :
          (SignIn(w, body) /\ DuplicatedIds(body) # {}) =>
              /\ \E id \in DuplicatedIds(body) :
                    last'.resp = JSONResponse(400, ErrorBody(UniqueMsg(id)))
              /\ cache' = cache]_vars

SessionLive(i) == now <= i.t0 + cfg.CacheExpiration
QRLive(i) == now <= i.tQR + OneHour
QRHeld(i) == QRcodeStoreGet(cache, now, i.qrID) = Ok(QRCodeOf(i.msg))

\* C8 as stated: whenever SignIn has returned a session id and a QR id and
\* neither TTL has elapsed, the session id holds the pending request and the
\* QR id holds the message.
C8_IssuedSessionHoldsPending ==
    \A i \in issued :
        (SessionLive(i) /\ QRLive(i)) =>
            /\ Stored(i.sessionID) = Some(i.msg)
            /\ QRHeld(i)

\* the session entry is there, with the request SignIn stored or with the
\* terminal value a Callback has put in its place
SessionHeld(i) ==
    /\ ~IsNil(Stored(i.sessionID))
    /\ Stored(i.sessionID) = Some(i.msg) \/ Terminal(Deref(Stored(i.sessionID)))

\* C8 amended: once SignIn has returned a session id and a QR id, the session
\* id holds the pending request or the terminal value of a Callback until the
\* session TTL counted from SignIn's write, and the QR id holds the message
\* for the QR TTL; the QR write comes after the session write, and the 200
\* response comes with the QR write.
C8_IssuedSessionHeld ==
    /\ [](\A i \in issued :
             /\ SessionLive(i) => SessionHeld(i)
             /\ QRLive(i) => QRHeld(i))
    /\ [][\A w \in Workers :
             SignInSave(w) =>
                 LET me == workers[w]
                     qrKey == QRcodeStoreKey \o UUIDString(nextUUID)
                 IN /\ me.t0 <= now
                    /\ now <= me.t0 + cfg.CacheExpiration => ~IsNil(Stored(me.sessionID))
                    /\ qrKey \notin DOMAIN cache
                    /\ qrKey \in DOMAIN cache'
                    /\ \A i \in issued : i.sessionID # me.sessionID
                    /\ last'.resp.code = 200
                    /\ last'.resp.body.SessionID = me.sessionID]_vars

\* C8 witness: a returned session holds a terminal value while both TTLs
\* run, and its QR code is in the QR store.
C8_Witness ==
    \E i \in issued :
        /\ SessionLive(i) /\ QRLive(i)
        /\ StoresTerminal(i.sessionID)
        /\ QRHeld(i)
        /\ now > i.tQR

\* C9: when the verifier rejects with a cause, the Callback stores Error(cause)
\* under the session id and answers 500 with the cause; Status on a session
\* that holds Error(cause) answers status 'error' with the cause as message.
C9_RejectionStoredAndReported ==
    /\ [][\A w \in Workers :
             (CallbackSet(w) /\ ~workers[w].out.ok) =>
                 /\ cacheGet(cache', now', SessionKey(workers[w].sessionID))
                        = Some(ErrorValue(workers[w].out.cause))
                 /\ last' = Completed("Callback", workers[w].sessionID, workers[w].token, None,
                                      JSONResponse(500, ErrorBody(workers[w].out.cause)))]_vars
    /\ [][\A id \in UUIDs, c \in Causes :
             (Status(id) /\ Stored(id) = Some(ErrorValue(c))) =>
                 /\ last'.resp.code = 200
                 /\ last'.resp.body.Status = statusError
                 /\ last'.resp.body.Message = Some(c)]_vars

\* C9 witness: Status reported the verifier's cause for a session in error,
\* at a later time than the session was created.
C9_Witness ==
    /\ last.op = "Status"
    /\ last.resp.code = 200
    /\ last.resp.body.Status = statusError
    /\ last.resp.body.Message = Some("state is expired")
    /\ Stored(last.id) = Some(ErrorValue("state is expired"))
    /\ now > 0

AllV3(scopes) == \A j \in 1..Len(scopes) : scopes[j].CircuitID = AtomicQueryV3CircuitID

\* C10: when a Callback answers 200, Status on its session answers 'success'
\* with the callback's token as jwz and the verifier's sender as userDID; the
\* nullifier list has one entry per response scope, with the scope's id, when
\* all response scopes are of the V3 circuit, and is absent otherwise.
C10_SuccessReported ==
    [][\A w \in Workers :
          (CallbackSet(w) /\ last'.resp.code = 200 /\ last'.op = "Callback") =>
              LET me == workers[w]
                  r == StatusResponse(cache', now', me.sessionID)
                  n == Deref(r.body.JwzMetadata).Nullifiers
              IN /\ r.code = 200
                 /\ r.body.Status = statusSuccess
                 /\ r.body.Jwz = Some(me.token)
                 /\ Deref(r.body.JwzMetadata).UserDID = me.out.From
                 /\ IF AllV3(me.out.Scope)
                    THEN /\ ~IsNil(n)
                         /\ Len(Deref(n)) = Len(me.out.Scope)
                         /\ Len(Deref(n)) > 0
                         /\ \A j \in 1..Len(me.out.Scope) : Deref(n)[j].ScopeID = me.out.Scope[j].ID
                    ELSE IsNil(n)]_vars

\* C10 witness: Status reported success with the second token and two
\* nullifiers, for scopes 2 and 1 in that order.
C10_Witness ==
    /\ last.op = "Status"
    /\ last.resp.code = 200
    /\ last.resp.body.Status = statusSuccess
    /\ last.resp.body.Jwz = Some("jwz-b")
    /\ ~IsNil(Deref(last.resp.body.JwzMetadata).Nullifiers)
    /\ Len(Deref(Deref(last.resp.body.JwzMetadata).Nullifiers)) = 2
    /\ Deref(Deref(last.resp.body.JwzMetadata).Nullifiers)[1].ScopeID = 2
    /\ Deref(Deref(last.resp.body.JwzMetadata).Nullifiers)[2].ScopeID = 1

\* C11 as stated: a Callback whose verifier call succeeded ends by writing a
\* VerificationResponse under its session id and answering 200, whatever the
\* scopes of the verified response.
C11_SuccessAlwaysVerified ==
    [][\A w \in Workers :
          (CallbackSet(w) /\ workers[w].out.ok) =>
              /\ last'.resp.code = 200
              /\ ~IsNil(cacheGet(cache', now', SessionKey(workers[w].sessionID)))
              /\ Deref(cacheGet(cache', now', SessionKey(workers[w].sessionID))).kind
                     = "VerificationResponse"]_vars

\* the verified response has no scope, or a V3 scope whose public signals do
\* not decode comes before any scope of another circuit
Undecodable(scopes) ==
    \/ Len(scopes) = 0
    \/ \E j \in 1..Len(scopes) :
          /\ ~scopes[j].PubSignals.valid
          /\ \A k \in 1..j : scopes[k].CircuitID = AtomicQueryV3CircuitID

\* C11 amended: a Callback whose verifier call succeeded writes
\* Verified(token, responder DID, artifacts) and answers 200, with artifacts
\* for V3 scopes only, unless the verified response has no scope or a V3
\* scope's public signals do not decode; then it answers 500 and writes nothing.
C11_SuccessVerifiedUnlessUndecodable ==
    [][\A w \in Workers :
          (CallbackSet(w) /\ workers[w].out.ok) =>
              LET me == workers[w]
                  after == cacheGet(cache', now', SessionKey(me.sessionID))
              IN IF Undecodable(me.out.Scope)
                 THEN /\ last'.resp.code = 500
                      /\ last'.id = me.sessionID
                      /\ cache' = cache
                 ELSE /\ last' = Completed("Callback", me.sessionID, me.token, None,
                                           JSONResponse(200, [ok |-> TRUE]))
                      /\ ~IsNil(after)
                      /\ Deref(after).kind = "VerificationResponse"
                      /\ Deref(after).Jwz = me.token
                      /\ Deref(after).UserDID = me.out.From
                      /\ Len(Deref(after).Scopes) =
                             IF AllV3(me.out.Scope) THEN Len(me.out.Scope) ELSE 0
                      /\ \A j \in 1..Len(Deref(after).Scopes) :
                             Deref(after).Scopes[j].ID = me.out.Scope[j].ID]_vars

\* C11 witness: a Callback answered 200 and the session holds a verification
\* response without artifacts (scopes of another circuit family).
C11_Witness ==
    /\ last.op = "Callback"
    /\ last.resp.code = 200
    /\ ~IsNil(Stored(last.id))
    /\ Deref(Stored(last.id)).kind = "VerificationResponse"
    /\ Deref(Stored(last.id)).Scopes = <<>>

\* C12: a Callback on a session id without a live entry, be it ahead of the
\* SignIn that will store under that id, fails with 'sessionID not found',
\* starts no verification and leaves the cache and every request in flight
\* as they were.
C12_CallbackOnMissingSession ==
    [][\A w \in {v \in Workers : IsFree(v)}, id \in UUIDs, token \in Tokens :
          (Callback(w, id, token) /\ IsNil(Stored(id))) =>
              /\ last' = Completed("Callback", id, token, None, GoError("sessionID not found"))
              /\ cache' = cache
              /\ workers' = workers
              /\ nextUUID' = nextUUID
              /\ issued' = issued]_vars

\* C12 witness: the Callback that failed last named the id under which a
\* SignIn, still in flight, has stored its request since.
C12_Witness ==
    /\ last.op = "Callback"
    /\ last.resp = GoError("sessionID not found")
    /\ \E w \in Workers :
          /\ workers[w].pc = "SignInSave"
          /\ workers[w].sessionID = last.id
          /\ workers[w].t0 = now
          /\ Stored(last.id) = workers[w].msg

\* a callback about to write that overlaps another one on its session: the
\* other has read the pending request and is still in flight, or has written
\* since this one read
Overlapped(w) ==
    /\ workers[w].pc = "CallbackSet"
    /\ \/ \E v \in Workers \ {w} : PendingReader(v, workers[w].sessionID)
       \/ StoresTerminal(workers[w].sessionID)

\* C13 as stated: each of two overlapping Callbacks writes, so that after a
\* Callback has finished the session holds the terminal value of that
\* Callback, the last to write.
C13_OverlappingCallbacksBothWrite ==
    [][\A w \in Workers :
          (CallbackSet(w) /\ Overlapped(w)) =>
              LET after == cacheGet(cache', now', SessionKey(workers[w].sessionID))
              IN /\ ~IsNil(after)
                 /\ Terminal(Deref(after))
                 /\ IF workers[w].out.ok
                    THEN Deref(after).kind = "VerificationResponse" /\ Deref(after).Jwz = workers[w].token
                    ELSE after = Some(ErrorValue(workers[w].out.cause))]_vars

\* the value a Callback writes for the verifier's answer
Written(me) ==
    IF ~me.out.ok THEN ErrorValue(me.out.cause)
    ELSE VerificationResponse(me.token, me.out.From,
             IF AllV3(me.out.Scope)
             THEN [j \in 1..Len(me.out.Scope) |->
                      [ID |-> me.out.Scope[j].ID,
                       NullifierSessionID |-> BigIntString(me.out.Scope[j].PubSignals.NullifierSessionID),
                       Nullifier |-> BigIntString(me.out.Scope[j].PubSignals.Nullifier)]]
             ELSE <<>>)

\* C13 amended: of two overlapping Callbacks, each one whose verifier answer
\* is a rejection or a decodable success writes its own terminal value whole,
\* replacing what the other wrote; one whose verified response does not
\* decode writes nothing, so the session keeps what it held (the other's
\* value, or the pending request when the other wrote nothing).
C13_LastWriterWins ==
    [][\A w \in Workers :
          (CallbackSet(w) /\ Overlapped(w)) =>
              LET me == workers[w]
                  after == cacheGet(cache', now', SessionKey(me.sessionID))
              IN IF me.out.ok /\ Undecodable(me.out.Scope)
                 THEN cache' = cache
                 ELSE /\ after = Some(Written(me))
                      /\ \A k \in DOMAIN cache \ {SessionKey(me.sessionID)} :
                            k \in DOMAIN cache' /\ cache'[k] = cache[k]]_vars

\* C13 witness: a Callback whose verifier call was rejected is about to write
\* over the verification response another Callback stored after both had
\* read the pending request.
C13_Witness ==
    \E w \in Workers :
        /\ workers[w].pc = "CallbackSet"
        /\ PendingReader(w, workers[w].sessionID)
        /\ ~workers[w].out.ok
        /\ StoresTerminal(workers[w].sessionID)
        /\ Deref(Stored(workers[w].sessionID)).kind = "VerificationResponse"

\* the keys whose entry a step creates or changes
WrittenKeys ==
    {k \in DOMAIN cache' : k \notin DOMAIN cache \/ cache'[k] # cache[k]}

\* the key a step of the handlers writes, if any
KeyOfStep ==
    {SessionKey(workers[w].sessionID) : w \in {v \in Workers : CallbackSet(v)}}
    \cup {QRcodeStoreKey \o UUIDString(nextUUID) : w \in {v \in Workers : SignInSave(v)}}
    \cup {SessionKey(nextUUID) : w \in {v \in Workers : \E body \in Requests : SignIn(v, body)}}

OffChainMode(body) == Len(body.Scope) > 0 /\ body.Scope[1].CircuitId \in OffChainCircuits
OnChainMode(body) == Len(body.Scope) > 0 /\ body.Scope[1].CircuitId \in OnChainCircuits

BadParams(sc) ==
    /\ ~IsNil(sc.Params)
    /\ \/ "nullifierSessionID" \notin DOMAIN Deref(sc.Params)
       \/ ~SetString(Deref(sc.Params)["nullifierSessionID"].s).ok

BadQuery(sc) ==
    \/ IsNil(sc.Query)
    \/ QueryNilOrEmpty(Deref(sc.Query), "context")
    \/ QueryNilOrEmpty(Deref(sc.Query), "type")
    \/ QueryNil(Deref(sc.Query), "allowedIssuers")

RuleViolated(body, n) ==
    LET some(P(_)) == \E j \in 1..Len(body.Scope) : P(body.Scope[j])
        badId(sc) == sc.Id <= 0
        badCircuit(sc) == \/ OffChainMode(body) /\ sc.CircuitId \notin OffChainCircuits
                          \/ OnChainMode(body) /\ sc.CircuitId \notin OnChainCircuits
                          \/ ~OffChainMode(body) /\ ~OnChainMode(body)
    IN CASE n = 1 -> Len(body.Scope) = 0
         [] n = 2 -> DuplicatedIds(body) # {}
         [] n = 3 -> some(badId)
         [] n = 4 -> some(badCircuit)
         [] n = 5 -> some(BadQuery)
         [] n = 6 -> \/ OffChainMode(body) /\ IsNil(body.ChainID)
                     \/ OnChainMode(body) /\ ~IsNil(checkOnChainRequest(
                            [body EXCEPT !.Scope = <<GoodScope(1, AtomicQueryV3OnChainCircuitID)>>]))
         [] n = 7 -> some(BadParams)
         [] OTHER -> TRUE

LowestViolated(body) == CHOOSE n \in 1..8 : RuleViolated(body, n) /\ \A m \in 1..(n - 1) : ~RuleViolated(body, m)

\* the rule a validation message belongs to
RuleOfMessage(msg) ==
    CASE msg = "field scope is empty" -> 1
      [] msg \in {UniqueMsg(id) : id \in 0..2} -> 2
      [] msg = "field scope id is empty" -> 3
      [] msg \in {"field circuitId is empty", "invalid circuitID"} -> 4
      [] msg \in {"field query is empty", "context cannot be empty", "type cannot be empty",
                  "allowedIssuers cannot be empty"} -> 5
      [] msg \in {"field transactionData is empty", "field chainId is empty",
                  "field contractAddress is empty", "field methodId is empty",
                  "field network is empty",
                  Deref(validateOffChainRequest(Body(None, <<>>, None, None)))} -> 6
      [] msg \in {"nullifierSessionID is empty", "nullifierSessionID is not a valid big integer"} -> 7
      [] msg \in {"sender not found for chainID " \o c : c \in {mainnetNetwork, "12345"}} -> 8
      [] OTHER -> 4

\* C15 as stated: a body that breaks several rules is refused with the
\* message of the lowest-numbered rule it breaks, wherever the offending
\* scope stands in the list.
C15_LowestRuleReported ==
    [][\A w \in Workers, body \in SignedIn :
          (SignIn(w, body) /\ last'.body = Some(body) /\ last'.resp.code = 400) =>
              RuleOfMessage(last'.resp.body.Message) = LowestViolated(body)]_vars

SupportedNetworks == {mumbaiNetwork, mainnetNetwork, amoyNetwork}

\* the message that names the supported chain ids
SupportedNetworksMsg ==
    "field chainId is empty expected " \o mumbaiNetwork \o " or " \o mainnetNetwork \o " or " \o amoyNetwork

\* C16 as stated: an off-chain body, valid otherwise, whose chain id is
\* missing or is not one of the supported networks is refused with a message
\* that names the supported values.
C16_UnsupportedChainNamed ==
    [][\A w \in Workers, body \in SignedIn :
          (/\ SignIn(w, body)
           /\ OffChainMode(body)
           /\ IsNil(validateRequestQuery(TRUE, body.Scope))
           /\ IsNil(body.ChainID) \/ Deref(body.ChainID) \notin SupportedNetworks) =>
              last' = Completed("SignIn", 0, "", Some(body),
                                JSONResponse(400, ErrorBody(SupportedNetworksMsg)))]_vars

\* the step is a SignIn of worker w that stored its request
Accepted(w) == workers[w].pc = "idle" /\ workers'[w].pc = "SignInSave"

SenderNotFoundMsg(chainID) == "sender not found for chainID " \o chainID

\* C16 amended: an off-chain SignIn is accepted only if the chain id is
\* present and has a configured sender; a missing chain id is refused with
\* the message naming the three networks, and a present chain id is not
\* tested against them: with valid scopes and no configured sender it is
\* refused with 'sender not found for chainID {id}'.
C16_ChainNeedsSender ==
    [][\A w \in Workers, body \in SignedIn :
          (SignIn(w, body) /\ OffChainMode(body)) =>
              /\ Accepted(w) => ~IsNil(body.ChainID) /\ Deref(body.ChainID) \in DOMAIN senderDIDs
              /\ IsNil(body.ChainID) =>
                    last' = Completed("SignIn", 0, "", Some(body),
                                      JSONResponse(400, ErrorBody(SupportedNetworksMsg)))
              /\ (/\ ~IsNil(body.ChainID)
                  /\ Deref(body.ChainID) \notin DOMAIN senderDIDs
                  /\ IsNil(validateRequestQuery(TRUE, body.Scope))) =>
                    last' = Completed("SignIn", 0, "", Some(body),
                                      JSONResponse(400, ErrorBody(SenderNotFoundMsg(Deref(body.ChainID)))))]_vars

\* C16 witness: a body with valid scopes and a chain id outside the three
\* networks was refused for its missing sender.
C16_Witness ==
    /\ last.op = "SignIn"
    /\ last.body = Some(input)
    /\ input.ChainID = Some("12345")
    /\ last.resp = JSONResponse(400, ErrorBody(SenderNotFoundMsg("12345")))

\* C17: an off-chain body, valid otherwise, whose chain id has no configured
\* sender is answered 400 'sender not found for chainID {id}' and nothing is
\* stored; when the chain id has a sender, the request that SignIn builds and
\* stores has exactly that sender.
C17_SenderOfChain ==
    [][\A w \in Workers, body \in SignedIn :
          (/\ SignIn(w, body)
           /\ OffChainMode(body)
           /\ ~IsNil(body.ChainID)
           /\ IsNil(validateRequestQuery(TRUE, body.Scope))
           /\ \A j \in 1..Len(body.Scope) : ~BadParams(body.Scope[j])) =>
              IF Deref(body.ChainID) \notin DOMAIN senderDIDs
              THEN /\ last' = Completed("SignIn", 0, "", Some(body),
                                        JSONResponse(400, ErrorBody(SenderNotFoundMsg(Deref(body.ChainID)))))
                   /\ cache' = cache
                   /\ issued' = issued
                   /\ workers' = workers
              ELSE /\ Accepted(w)
                   /\ Deref(workers'[w].msg).From = senderDIDs[Deref(body.ChainID)]
                   /\ cacheGet(cache', now', SessionKey(nextUUID)) = workers'[w].msg]_vars

\* C17 witness: a body for a chain without a sender was refused while the
\* cache held the session and the QR code of an earlier body.
C17_Witness ==
    /\ last.op = "SignIn"
    /\ last.body = Some(input)
    /\ input.ChainID = Some(mainnetNetwork)
    /\ last.resp = JSONResponse(400, ErrorBody(SenderNotFoundMsg(mainnetNetwork)))
    /\ issued # {}
    /\ \A i \in issued : Holds(i.sessionID) /\ QRHeld(i)

\* the SignIn step refused body with message m and stored nothing
RefusedWith(body, m) ==
    /\ last' = Completed("SignIn", 0, "", Some(body), JSONResponse(400, ErrorBody(m)))
    /\ cache' = cache
    /\ issued' = issued
    /\ workers' = workers

\* C18: for an on-chain body whose scopes pass validation, the transaction
\* data is tested for presence, positive chain id, contract address, method
\* id and network, in that order, and SignIn answers 400 with the message of
\* the first test that fails, storing nothing.
C18_TransactionDataOrder ==
    [][\A w \in Workers, body \in SignedIn :
          (/\ SignIn(w, body)
           /\ OnChainMode(body)
           /\ IsNil(validateRequestQuery(FALSE, body.Scope))) =>
              LET td == body.TransactionData
                  present == ~IsNil(td)
                  chainOk == present /\ Deref(td).ChainID > 0
                  addressOk == chainOk /\ Deref(td).ContractAddress # ""
                  methodOk == addressOk /\ Deref(td).MethodID # ""
              IN /\ ~present => RefusedWith(body, "field transactionData is empty")
                 /\ (present /\ Deref(td).ChainID <= 0) => RefusedWith(body, "field chainId is empty")
                 /\ (chainOk /\ Deref(td).ContractAddress = "") =>
                        RefusedWith(body, "field contractAddress is empty")
                 /\ (addressOk /\ Deref(td).MethodID = "") => RefusedWith(body, "field methodId is empty")
                 /\ (methodOk /\ Deref(td).Network = "") => RefusedWith(body, "field network is empty")]_vars

\* C18 witness: transaction data without contract address and without method
\* id was refused for its contract address.
C18_Witness ==
    /\ last.op = "SignIn"
    /\ last.body = Some(input)
    /\ ~IsNil(input.TransactionData)
    /\ Deref(input.TransactionData).ContractAddress = ""
    /\ Deref(input.TransactionData).MethodID = ""
    /\ last.resp = JSONResponse(400, ErrorBody("field contractAddress is empty"))

\* the circuits of the family of the body's first scope
Family(body) == IF OffChainMode(body) THEN OffChainCircuits ELSE OnChainCircuits

FamilyMsg(body, got) ==
    IF OffChainMode(body)
    THEN WrongCircuitMsg(got, AtomicQuerySigV2CircuitID, AtomicQueryMTPV2CircuitID, AtomicQueryV3CircuitID)
    ELSE WrongCircuitMsg(got, AtomicQuerySigV2OnChainCircuitID, AtomicQueryMTPV2OnChainCircuitID,
                         AtomicQueryV3OnChainCircuitID)

\* scope j is the first defect of the body: its circuit id is not empty and
\* not of the family, its id is positive and new, and the scopes before it
\* are valid
FirstDefectIsCircuit(body, j) ==
    /\ OffChainMode(body) \/ OnChainMode(body)
    /\ OffChainMode(body) => ~IsNil(body.ChainID)
    /\ body.Scope[j].CircuitId # ""
    /\ body.Scope[j].CircuitId \notin Family(body)
    /\ body.Scope[j].Id > 0
    /\ \A k \in 1..(j - 1) :
          /\ body.Scope[k].Id # body.Scope[j].Id
          /\ IsNil(validateRequestQuery(OffChainMode(body), SubSeq(body.Scope, 1, k)))

\* C19: the first scope's circuit id decides the message: an off-chain
\* circuit gives an authorization request, an on-chain circuit a contract
\* invoke request, any other is refused with 'invalid circuitID'; an accepted
\* body has all its scopes in the family of the first, and a later scope of
\* the other family or of an unknown circuit is refused with the message
\* naming its value and the three circuits of the family.
C19_FirstCircuitDecides ==
    [][\A w \in Workers, body \in SignedIn :
          (SignIn(w, body) /\ Len(body.Scope) > 0) =>
              /\ (~OffChainMode(body) /\ ~OnChainMode(body)) => RefusedWith(body, "invalid circuitID")
              /\ Accepted(w) =>
                    /\ Deref(workers'[w].msg).kind =
                           IF OffChainMode(body) THEN "AuthorizationRequestMessage"
                           ELSE "ContractInvokeRequestMessage"
                    /\ Deref(workers'[w].msg).Type = BuiltType(body)
                    /\ \A j \in 1..Len(body.Scope) : body.Scope[j].CircuitId \in Family(body)
              /\ \A j \in 1..Len(body.Scope) :
                    FirstDefectIsCircuit(body, j) =>
                        RefusedWith(body, FamilyMsg(body, body.Scope[j].CircuitId))]_vars

\* C19 witness: an off-chain body whose second scope names an on-chain
\* circuit was refused with the message naming that circuit.
C19_Witness ==
    /\ last.op = "SignIn"
    /\ last.body = Some(input)
    /\ Len(input.Scope) = 2
    /\ input.Scope[1].CircuitId = AtomicQueryV3CircuitID
    /\ input.Scope[2].CircuitId = AtomicQueryV3OnChainCircuitID
    /\ last.resp = JSONResponse(400, ErrorBody(
           WrongCircuitMsg(AtomicQueryV3OnChainCircuitID, AtomicQuerySigV2CircuitID,
                           AtomicQueryMTPV2CircuitID, AtomicQueryV3CircuitID)))

DecimalDigits == {"0", "1", "2", "3", "4", "5", "6", "7", "8", "9"}

\* a base-10 integer: an optional sign and one digit or more
IsDecimal(s) ==
    LET d == IF Len(s) > 0 /\ Head(s) \in {"+", "-"} THEN Tail(s) ELSE s
    IN Len(d) > 0 /\ \A i \in 1..Len(d) : d[i] \in DecimalDigits

\* the canonical decimal string: no plus sign, no leading zero, no minus zero
IsCanonical(s) ==
    LET neg == Len(s) > 0 /\ Head(s) = "-"
        d == IF neg THEN Tail(s) ELSE s
    IN /\ Len(d) > 0
       /\ \A i \in 1..Len(d) : d[i] \in DecimalDigits
       /\ Len(d) > 1 => d[1] # "0"
       /\ neg => d # <<"0">>

WithoutParams(body) ==
    [body EXCEPT !.Scope = [j \in 1..Len(body.Scope) |-> [body.Scope[j] EXCEPT !.Params = None]]]

HasKey(sc) == "nullifierSessionID" \in DOMAIN Deref(sc.Params)
StringParams(sc) == IsNil(sc.Params) \/ ~HasKey(sc) \/ Deref(sc.Params)["nullifierSessionID"].t = "string"

\* C20: for a body that is valid but for its params, whose nullifierSessionID
\* values are strings: the first scope with params decides; a missing key is
\* refused with 'nullifierSessionID is empty', a string that is not a base-10
\* integer with 'nullifierSessionID is not a valid big integer', nothing being
\* stored; otherwise the stored request's scope has the single param
\* nullifierSessionId, the canonical decimal string of the same integer.
C20_Params ==
    [][\A w \in Workers, body \in SignedIn :
          (/\ SignIn(w, body)
           /\ SignInBuild(cfg, WithoutParams(body), nextUUID, nextUUID + 1).kind = "ok"
           /\ \A j \in 1..Len(body.Scope) : StringParams(body.Scope[j])) =>
              LET wrong == {j \in 1..Len(body.Scope) : BadParams(body.Scope[j])}
                  first == CHOOSE j \in wrong : \A k \in wrong : j <= k
              IN IF wrong # {}
                 THEN IF ~HasKey(body.Scope[first])
                      THEN RefusedWith(body, "nullifierSessionID is empty")
                      ELSE /\ ~IsDecimal(Deref(body.Scope[first].Params)["nullifierSessionID"].s)
                           /\ RefusedWith(body, "nullifierSessionID is not a valid big integer")
                 ELSE /\ Accepted(w)
                      /\ cacheGet(cache', now', SessionKey(nextUUID)) = workers'[w].msg
                      /\ \A j \in 1..Len(body.Scope) :
                            LET built == Deref(workers'[w].msg).Body.Scope[j].Params
                                given == body.Scope[j].Params
                            IN IF IsNil(given) THEN IsNil(built)
                               ELSE /\ ~IsNil(built)
                                    /\ DOMAIN Deref(built) = {"nullifierSessionId"}
                                    /\ IsDecimal(Deref(given)["nullifierSessionID"].s)
                                    /\ IsCanonical(Deref(built)["nullifierSessionId"])
                                    /\ SetString(Deref(built)["nullifierSessionId"]).val
                                           = SetString(Deref(given)["nullifierSessionID"].s).val]_vars

\* C20 witness: the request stored for a body with nullifierSessionID '007'
\* has the param nullifierSessionId '7'.
C20_Witness ==
    \E w \in Workers, j \in 1..Len(input.Scope) :
        /\ workers[w].pc = "SignInSave"
        /\ workers[w].body = Some(input)
        /\ ~IsNil(input.Scope[j].Params)
        /\ input.Scope[j].Params = Some([nullifierSessionID |-> JSONString(<<"0", "0", "7">>)])
        /\ Deref(Stored(workers[w].sessionID)).Body.Scope[j].Params = Some([nullifierSessionId |-> <<"7">>])

\* a scope of the body holds a nullifierSessionID that is not a JSON string
NonStringParams(body) ==
    \E j \in 1..Len(body.Scope) :
        /\ ~IsNil(body.Scope[j].Params)
        /\ HasKey(body.Scope[j])
        /\ Deref(body.Scope[j].Params)["nullifierSessionID"].t # "string"

\* C21: every SignIn call ends in a 200, 400 or 500 response, and a body with
\* a nullifierSessionID that is not a string is refused with a 400.
C21_SignInAlwaysAnswers ==
    last.op = "SignIn" =>
        /\ last.resp.code \in {200, 400, 500}
        /\ NonStringParams(Deref(last.body)) => last.resp.code = 400

\* the step is a write of a handler to the session entry of id
SessionWriteOf(id) ==
    \E w \in Workers :
        \/ CallbackSet(w) /\ workers[w].sessionID = id
        \/ nextUUID = id /\ \E body \in Requests : SignIn(w, body)

NotFound == JSONResponse(404, ErrorBody("sessionID not found"))

\* C22: a session entry expires the configured TTL after its last write and
\* reads do not extend it: the entry changes only in the SignIn or Callback
\* step that writes it, which sets its expiration to the time of the write
\* plus the TTL, and Status finds the entry up to that time and answers not
\* found after it.
C22_SessionTTLFromLastWrite ==
    [][\A id \in UUIDs :
          LET k == SessionKey(id)
          IN /\ (k \in DOMAIN cache' /\ (k \notin DOMAIN cache \/ cache'[k] # cache[k])) =>
                    /\ cache'[k].Expiration = now + cfg.CacheExpiration
                    /\ SessionWriteOf(id)
             /\ (k \in DOMAIN cache /\ Status(id)) =>
                    (last'.resp = NotFound <=> now > cache[k].Expiration)]_vars

\* C22 witness: Status finds a session past the TTL of its SignIn write, a
\* Callback having written it since, after an earlier Status read.
C22_Witness ==
    /\ last.op = "Status"
    /\ last.resp.code = 200
    /\ last.resp.body.Status # statusPending
    /\ \E i \in issued :
          /\ i.sessionID = last.id
          /\ now > i.t0 + cfg.CacheExpiration
          /\ cache[SessionKey(last.id)].Expiration > i.t0 + cfg.CacheExpiration

QRKey(id) == QRcodeStoreKey \o UUIDString(id)

\* C23: a QR code saved by SignIn is fetchable for one hour from the save and
\* not after, whatever the session TTL, in the cache shared with the sessions:
\* a QR entry is written only by the save of a SignIn, which sets its
\* expiration to the time of the save plus one hour; it leaves the cache only
\* once expired; and GetQRCodeFromStore answers 200 up to that time and 500
\* after it, changing nothing.
C23_QRCodeLivesOneHour ==
    [][\A id \in UUIDs :
          LET k == QRKey(id)
          IN /\ (k \in DOMAIN cache' /\ (k \notin DOMAIN cache \/ cache'[k] # cache[k])) =>
                    /\ cache'[k].Expiration = now + OneHour
                    /\ nextUUID = id
                    /\ \E w \in Workers : SignInSave(w)
             /\ (k \in DOMAIN cache /\ k \notin DOMAIN cache') => now > cache[k].Expiration
             /\ (k \in DOMAIN cache /\ GetQRCodeFromStore(id)) =>
                    /\ last'.resp.code = (IF now <= cache[k].Expiration THEN 200 ELSE 500)
                    /\ cache' = cache]_vars

\* C23 witness: with a session TTL longer than the hour, the QR code of a
\* SignIn is refused past its hour while the session is still found.
C23_Witness ==
    /\ last.op = "GetQRCodeFromStore"
    /\ last.resp.code = 500
    /\ cfg.CacheExpiration > OneHour
    /\ \E i \in issued :
          /\ i.qrID = last.id
          /\ now > i.tQR + OneHour
          /\ ~IsNil(Stored(i.sessionID))

\* C23 witness of the other case: with a session TTL shorter than the hour,
\* the QR code is fetched after the session has expired.
C23_WitnessShorter ==
    /\ last.op = "GetQRCodeFromStore"
    /\ last.resp.code = 200
    /\ cfg.CacheExpiration < OneHour
    /\ \E i \in issued :
          /\ i.qrID = last.id
          /\ IsNil(Stored(i.sessionID))
          /\ QRHeld(i)

\* C30: when no cache expiration is configured, a session entry expires one
\* hour after its last write: a write sets the expiration of the entry to the
\* time of the write plus one hour, and Status answers not found once that
\* hour has passed.
C30_DefaultSessionTTLOneHour ==
    [][\A id \in UUIDs :
          LET k == SessionKey(id)
          IN cfg = Load(None) =>
                /\ (k \in DOMAIN cache' /\ (k \notin DOMAIN cache \/ cache'[k] # cache[k])) =>
                       cache'[k].Expiration = now + OneHour
                /\ (Status(id) /\ \E i \in issued : i.sessionID = id /\ Stored(id) = Some(i.msg)
                                                     /\ now > i.t0 + OneHour) =>
                       last'.resp = NotFound]_vars

\* the ids under which SignIn has stored a session, and those of its QR codes
SessionIds ==
    {i.sessionID : i \in issued} \cup {workers[w].sessionID : w \in {v \in Workers : workers[v].pc = "SignInSave"}}
QRIds == {i.qrID : i \in issued}

\* C24: the sessions and the QR codes share the cache and never collide: a key
\* 'qr-code-'+id holds a QR code and a bare id holds a value of the session
\* store, no other key exists; Status of a QR id that is no session id answers
\* not found, GetQRCodeFromStore of a session id that is no QR id answers the
\* 500, and the write of a Callback leaves every QR entry as it was.
C24_StoresNeverCollide ==
    /\ [](\A k \in DOMAIN cache :
             \/ \E id \in UUIDs : k = QRKey(id) /\ cache[k].Object.kind = "QRCode"
             \/ \E id \in UUIDs : k = SessionKey(id) /\ cache[k].Object.kind # "QRCode")
    /\ [][\A id \in UUIDs :
             /\ (Status(id) /\ id \in QRIds \ SessionIds) => last'.resp = NotFound
             /\ (GetQRCodeFromStore(id) /\ id \in SessionIds \ QRIds) =>
                    last'.resp = JSONResponse(500, ErrorBody("Error getting QRCode: sessionID not found"))
             /\ (cache' # cache /\ \E w \in Workers : CallbackSet(w)) =>
                    (QRKey(id) \in DOMAIN cache =>
                        QRKey(id) \in DOMAIN cache' /\ cache'[QRKey(id)] = cache[QRKey(id)])]_vars

\* C24 witness: Status answered not found for the id of a QR code that is
\* held, after a Callback has written the session of the same SignIn.
C24_Witness ==
    /\ last.op = "Status"
    /\ last.resp = NotFound
    /\ \E i \in issued :
          /\ i.qrID = last.id
          /\ QRHeld(i)
          /\ StoresTerminal(i.sessionID)

OthersUnchanged(k) ==
    /\ DOMAIN cache' \subseteq DOMAIN cache \cup {k}
    /\ \A j \in DOMAIN cache \ {k} : j \in DOMAIN cache' /\ cache'[j] = cache[j]

\* C26: a Callback on session s changes at most the entry under s, whatever
\* its outcome: its read (session not found, cast failure, or the request
\* handed to the verifier) and the verifier call change no entry, its write
\* leaves every other session and every QR entry as it was, and when the
\* response scopes do not decode no entry changes at all.
C26_CallbackFrame ==
    [][cache' # cache =>
          \A w \in Workers :
             /\ \A id \in PairUUIDs, token \in RaceTokens : ~Callback(w, id, token)
             /\ ~CallbackVerify(w, RaceOutcomes)
             /\ CallbackSet(w) =>
                   /\ OthersUnchanged(SessionKey(workers[w].sessionID))
                   /\ ~(workers[w].out.ok /\ Undecodable(workers[w].out.Scope))]_vars

\* C26 witness: a Callback whose response scopes did not decode has answered
\* 500 on a session that still holds its request, next to another session
\* that holds the result of its own Callback and to the QR codes of both.
C26_Witness ==
    /\ last.op = "Callback"
    /\ \E o \in RaceOutcomes :
          /\ o.ok /\ Undecodable(o.Scope)
          /\ last.resp = JSONResponse(500, ErrorBody(getVerificationResponseScopes(o.Scope).msg))
    /\ \E i \in issued, j \in issued :
          /\ i.sessionID = last.id
          /\ j.sessionID # i.sessionID
          /\ Stored(i.sessionID) = Some(i.msg)
          /\ StoresTerminal(j.sessionID)
          /\ QRHeld(i) /\ QRHeld(j)

\* C26 witness of the cast failure: a Callback on an on-chain session has
\* answered the cast failure next to another session.
C26_WitnessCast ==
    /\ last.op = "Callback"
    /\ last.resp = JSONResponse(500, ErrorBody(CastFailure))
    /\ \E i \in issued, j \in issued :
          /\ i.sessionID = last.id
          /\ j.sessionID # i.sessionID
          /\ Stored(i.sessionID) = Some(i.msg)
          /\ i.msg.kind = "ContractInvokeRequestMessage"

\* {host}/callback?sessionID={id}
CallbackOf(id) == cfg.Host \o "/callback?sessionID=" \o UUIDString(id)

\* C27: the pending request stored under a session id has the callback URL
\* {host}/callback?sessionID= followed by that very id, and so has the QR
\* code saved for it.
C27_CallbackNamesItsSession ==
    /\ \A id \in PairUUIDs :
          (SessionKey(id) \in DOMAIN cache
              /\ cache[SessionKey(id)].Object.kind = "AuthorizationRequestMessage") =>
                  cache[SessionKey(id)].Object.Body.CallbackURL = CallbackOf(id)
    /\ \A i \in issued :
          i.msg.kind = "AuthorizationRequestMessage" =>
              /\ QRKey(i.qrID) \in DOMAIN cache
              /\ cache[QRKey(i.qrID)].Object.Body.CallbackUrl = Some(CallbackOf(i.sessionID))

\* C27 witness: two off-chain sessions hold their pending requests, QR codes
\* saved, each with its own callback URL.
C27_Witness ==
    \E i \in issued, j \in issued :
        /\ i.sessionID # j.sessionID
        /\ Stored(i.sessionID) = Some(i.msg) /\ Stored(j.sessionID) = Some(j.msg)
        /\ i.msg.kind = "AuthorizationRequestMessage"
        /\ j.msg.kind = "AuthorizationRequestMessage"
        /\ i.msg.Body.CallbackURL # j.msg.Body.CallbackURL

\* the errors of QRcodeStore.Get
QRStoreErrors == {"sessionID not found", "failed to cast data to QRCode"}

\* C28: GetQRCodeFromStore answers 200 with the QR code saved under the id
\* when a SignIn has returned the id and its hour has not passed, and
\* otherwise, the id never issued or expired, 500 with a message that starts
\* with 'Error getting QRCode: '.
C28_QRCodeOrError ==
    [][\A id \in UUIDs :
          GetQRCodeFromStore(id) =>
              IF \E i \in issued : i.qrID = id /\ QRLive(i)
              THEN \E i \in issued : i.qrID = id /\ last'.resp = JSONResponse(200, QRCodeOf(i.msg))
              ELSE \E m \in QRStoreErrors :
                      last'.resp = JSONResponse(500, ErrorBody("Error getting QRCode: " \o m))]_vars

\* C28 witness: the id of a QR code that was issued, has expired and was
\* evicted is answered with the 500.
C28_Witness ==
    /\ last.op = "GetQRCodeFromStore"
    /\ last.resp = JSONResponse(500, ErrorBody("Error getting QRCode: sessionID not found"))
    /\ \E i \in issued :
          /\ i.qrID = last.id
          /\ ~QRLive(i)
          /\ QRKey(i.qrID) \notin DOMAIN cache

\* the identity derived from the contract address and the chain id
DerivedIdentity(td) == "did:polygonid:" \o ToString(td.ChainID) \o ":" \o td.ContractAddress

\* the on-chain request built for body carries its transaction data and no
\* callback URL, in the message and in its QR code
CarriesTransactionData(m, td) ==
    /\ m.Type = ContractInvokeRequestMessageType
    /\ m.Body.TransactionData = td
    /\ "CallbackURL" \notin DOMAIN m.Body
    /\ QRCodeOf(m).Body.CallbackUrl = None
    /\ QRCodeOf(m).Body.TransactionData =
          Some([ChainId |-> td.ChainID, ContractAddress |-> td.ContractAddress,
                MethodId |-> td.MethodID, Network |-> td.Network])

\* C29 as stated: the recipient of the contract-invoke request built for an
\* on-chain body is the identity derived from the contract address and the
\* chain id of its transaction data, and the body carries the transaction
\* data and no callback URL.
C29_RecipientIsDerived ==
    [][\A w \in {v \in Workers : IsFree(v)}, body \in {b \in SignedIn : OnChainMode(b)} :
          (SignIn(w, body) /\ Accepted(w)) =>
              LET m == Deref(workers'[w].msg)
                  td == Deref(body.TransactionData)
              IN /\ m.To = DerivedIdentity(td)
                 /\ CarriesTransactionData(m, td)]_vars

\* C29 amended: the sender (from) of the contract-invoke request is the
\* identity derived from the contract address and the chain id; its recipient
\* (to) is the one of the body, or empty; the body carries the transaction
\* data and no callback URL.
C29_SenderIsDerived ==
    [][\A w \in {v \in Workers : IsFree(v)}, body \in {b \in SignedIn : OnChainMode(b)} :
          (SignIn(w, body) /\ Accepted(w)) =>
              LET m == Deref(workers'[w].msg)
                  td == Deref(body.TransactionData)
              IN /\ m.From = DerivedIdentity(td)
                 /\ m.To = (IF IsNil(body.To) THEN "" ELSE Deref(body.To))
                 /\ QRCodeOf(m).To = body.To
                 /\ CarriesTransactionData(m, td)]_vars

\* C29 witness: the request stored for an on-chain body with a recipient and
\* the transaction data of the other chain is from the derived identity and
\* to that recipient.
C29_Witness ==
    \E w \in Workers :
        /\ workers[w].pc = "SignInSave"
        /\ workers[w].body = Some(input)
        /\ input.TransactionData = Some(OtherTransactionData)
        /\ input.To = Some("did:polygonid:user")
        /\ Deref(Stored(workers[w].sessionID)).From = DerivedIdentity(OtherTransactionData)
        /\ Deref(Stored(workers[w].sessionID)).To = "did:polygonid:user"

\* the step is the end of a Callback of worker w whose verifier call
\* succeeded with a response that has scopes
ExtractsArtifacts(w) ==
    /\ workers[w].pc = "CallbackSet"
    /\ workers[w].out.ok
    /\ Len(workers[w].out.Scope) > 0
    /\ CallbackSet(w)

\* one artifact per scope, in the order of the scopes and with their ids
OnePerScope(artifacts, scopes) ==
    /\ Len(artifacts) = Len(scopes)
    /\ \A j \in 1..Len(scopes) : artifacts[j].ID = scopes[j].ID

\* C31 as stated: for a non-empty list of verified response scopes the
\* extraction gives the empty list or one artifact per scope, in order and
\* with the scope ids, and it gives the empty list whenever a scope of the
\* list, first or later, is not of the V3 circuit.
C31_AllOrNothing ==
    [][\A w \in Workers :
          ExtractsArtifacts(w) =>
              LET scopes == workers[w].out.Scope
                  r == getVerificationResponseScopes(scopes)
              IN /\ r.kind = "ok"
                 /\ IF AllV3(scopes) THEN OnePerScope(r.val, scopes) ELSE r.val = <<>>]_vars

\* C31 amended: for a non-empty list the extraction fails, and the Callback
\* writes nothing, when a V3 scope whose public signals do not decode comes
\* before any scope of another circuit; otherwise it gives one artifact per
\* scope, in order and with the scope ids, when every scope is of the V3
\* circuit, and the empty list when a scope, first or later, is not, whatever
\* was decoded before it; the Callback stores exactly that list.
C31_AllOrNothingUnlessUndecodable ==
    [][\A w \in Workers :
          ExtractsArtifacts(w) =>
              LET scopes == workers[w].out.Scope
                  r == getVerificationResponseScopes(scopes)
                  after == cacheGet(cache', now', SessionKey(workers[w].sessionID))
              IN IF Undecodable(scopes)
                 THEN r.kind = "err" /\ cache' = cache
                 ELSE /\ r.kind = "ok"
                      /\ IF AllV3(scopes) THEN OnePerScope(r.val, scopes) ELSE r.val = <<>>
                      /\ ~IsNil(after)
                      /\ Deref(after).kind = "VerificationResponse"
                      /\ Deref(after).Scopes = r.val]_vars

\* C31 witness: a Callback whose verified response had scopes was answered
\* with the decoding failure, and its session still holds the request.
C31_Witness ==
    /\ last.op = "Callback"
    /\ last.resp = JSONResponse(500, ErrorBody("invalid pub signals"))
    /\ \E i \in issued : i.sessionID = last.id /\ Stored(i.sessionID) = Some(i.msg)

RequestKinds == {"AuthorizationRequestMessage", "ContractInvokeRequestMessage"}

\* the request messages held in the session store, by session id
StoredRequests ==
    {id \in PairUUIDs : SessionKey(id) \in DOMAIN cache
                           /\ cache[SessionKey(id)].Object.kind \in RequestKinds}

\* the QR code q agrees with the request m on message id, thread id, sender,
\* recipient, media type, message type, reason and scope list
QRAgrees(q, m) ==
    /\ q.Id = m.ID
    /\ q.Thid = m.ThreadID
    /\ q.From = m.From
    /\ q.To = (IF m.To = "" THEN None ELSE Some(m.To))
    /\ q.Typ = m.Typ
    /\ q.Type = m.Type
    /\ q.Body.Reason = m.Body.Reason
    /\ Len(q.Body.Scope) = Len(m.Body.Scope)
    /\ \A j \in 1..Len(m.Body.Scope) :
          /\ q.Body.Scope[j].Id = m.Body.Scope[j].ID
          /\ q.Body.Scope[j].CircuitId = m.Body.Scope[j].CircuitID
          /\ q.Body.Scope[j].Query = m.Body.Scope[j].Query
          /\ q.Body.Scope[j].Params = m.Body.Scope[j].Params

\* C32: every request message stored by SignIn has its thread id equal to its
\* message id; the QR code saved by a SignIn agrees with the request the same
\* SignIn stored on message id, thread id, sender, recipient, media type,
\* message type, reason and scope list; and two SignIn calls never give the
\* same message id.
C32_QRAgreesWithRequest ==
    /\ \A id \in StoredRequests :
          cache[SessionKey(id)].Object.ThreadID = cache[SessionKey(id)].Object.ID
    /\ \A i \in issued :
          /\ i.msg.ThreadID = i.msg.ID
          /\ QRKey(i.qrID) \in DOMAIN cache
          /\ QRAgrees(cache[QRKey(i.qrID)].Object, i.msg)
    /\ \A id1 \in StoredRequests, id2 \in StoredRequests :
          id1 # id2 => cache[SessionKey(id1)].Object.ID # cache[SessionKey(id2)].Object.ID
    /\ \A i \in issued, j \in issued : i.sessionID # j.sessionID => i.msg.ID # j.msg.ID

\* C32 witness: an off-chain SignIn with a recipient and an on-chain SignIn
\* without one have both returned; the QR code of each is held and their
\* message ids differ.
C32_Witness ==
    \E i \in issued, j \in issued :
        /\ i.msg.kind = "AuthorizationRequestMessage"
        /\ j.msg.kind = "ContractInvokeRequestMessage"
        /\ i.msg.To # "" /\ j.msg.To = ""
        /\ Len(i.msg.Body.Scope) = 2
        /\ QRHeld(i) /\ QRHeld(j)
        /\ cache[QRKey(i.qrID)].Object.Id # cache[QRKey(j.qrID)].Object.Id

\* C33: Status and GetQRCodeFromStore are read-only: neither changes, creates
\* or deletes an entry of the session store or of the QR store, nor anything
\* else of the server, so the same call made again right after it, with no
\* write and no expiry in between, gets the same response.
C33_ReadsAreReadOnly ==
    [][\A id \in UUIDs :
          /\ Status(id) =>
                /\ cache' = cache
                /\ <<nextUUID', workers', issued'>> = <<nextUUID, workers, issued>>
                /\ last'.resp = StatusResponse(cache', now', id)
          /\ GetQRCodeFromStore(id) =>
                /\ cache' = cache
                /\ <<nextUUID', workers', issued'>> = <<nextUUID, workers, issued>>
                /\ last'.resp = QRCodeResponse(cache', now', id)]_vars

\* C33 witness: Status has reported the result of a session at a later time
\* than the Callback wrote it, and the session entry and the QR entry still
\* have the expirations their writes gave them.
C33_Witness ==
    /\ last.op = "Status"
    /\ last.resp.code = 200
    /\ last.resp.body.Status = statusSuccess
    /\ \E i \in issued :
          /\ i.sessionID = last.id
          /\ now > i.tQR
          /\ QRHeld(i)
          /\ cache[QRKey(i.qrID)].Expiration = i.tQR + OneHour
          /\ cache[SessionKey(i.sessionID)].Expiration < now + cfg.CacheExpiration

\* the transaction data of the body passes every check made on it
TransactionDataPasses(body) ==
    /\ ~IsNil(body.TransactionData)
    /\ Deref(body.TransactionData).ChainID > 0
    /\ Deref(body.TransactionData).ContractAddress # ""
    /\ Deref(body.TransactionData).MethodID # ""
    /\ Deref(body.TransactionData).Network # ""

\* the chain of the body's transaction data has a configured sender
ChainHasSender(body) == ToString(Deref(body.TransactionData).ChainID) \in DOMAIN senderDIDs

C34_WitnessOrder ==
    /\ last.op = "SignIn"
    /\ last.body = Some(input)
    /\ OnChainMode(input)
    /\ ~IsNil(input.TransactionData)
    /\ ~ChainHasSender(input)
    /\ last.resp = JSONResponse(400, ErrorBody("field network is empty"))

\* the sessions created from an on-chain body: the stored request, the time
\* of the write and the session id, the SignIn returned or still in flight
OnChainSessions ==
    {[sessionID |-> i.sessionID, msg |-> i.msg, t0 |-> i.t0] :
        i \in {j \in issued : j.msg.kind = "ContractInvokeRequestMessage"}}
    \cup {[sessionID |-> workers[w].sessionID, msg |-> Deref(workers[w].msg), t0 |-> workers[w].t0] :
             w \in {v \in Workers : /\ workers[v].pc = "SignInSave"
                                    /\ Deref(workers[v].msg).kind = "ContractInvokeRequestMessage"}}

\* C35: a session created from an on-chain body never holds Verified or
\* Error: its entry is the contract-invoke request of its SignIn, with the
\* expiration of that write, until it is evicted after its TTL; and every
\* Callback on it answers 500 with the cast failure, starts no verification
\* and changes no entry.
C35_OnChainSessionStaysInitial ==
    /\ [](\A s \in OnChainSessions :
             /\ SessionKey(s.sessionID) \in DOMAIN cache =>
                   cache[SessionKey(s.sessionID)] =
                       [Object |-> s.msg, Expiration |-> s.t0 + cfg.CacheExpiration]
             /\ now <= s.t0 + cfg.CacheExpiration => Stored(s.sessionID) = Some(s.msg))
    /\ [][\A s \in OnChainSessions :
             /\ (SessionKey(s.sessionID) \in DOMAIN cache /\ SessionKey(s.sessionID) \notin DOMAIN cache') =>
                    now > s.t0 + cfg.CacheExpiration
             /\ \A w \in {v \in Workers : IsFree(v)}, token \in Tokens :
                    (Callback(w, s.sessionID, token) /\ ~IsNil(Stored(s.sessionID))) =>
                        /\ last' = Completed("Callback", s.sessionID, token, None,
                                             JSONResponse(500, ErrorBody(CastFailure)))
                        /\ workers' = workers
                        /\ cache' = cache]_vars

\* C35 witness: a Callback on an on-chain session, at a later time than the
\* SignIn, was answered with the cast failure, and the session still holds
\* its contract-invoke request.
C35_Witness ==
    /\ last.op = "Callback"
    /\ last.token = "jwz-b"
    /\ last.resp = JSONResponse(500, ErrorBody(CastFailure))
    /\ \E s \in OnChainSessions :
          /\ s.sessionID = last.id
          /\ now > s.t0
          /\ Stored(s.sessionID) = Some(s.msg)

\* the sessions that a SignIn has written: id and time of the write, the
\* SignIn returned or still in flight
CreatedSessions ==
    {[sessionID |-> i.sessionID, t0 |-> i.t0] : i \in issued}
    \cup {[sessionID |-> workers[w].sessionID, t0 |-> workers[w].t0] :
             w \in {v \in Workers : workers[v].pc = "SignInSave"}}

StatusValues == {statusPending, statusSuccess, statusError}

\* C36: from the write of its SignIn until the TTL counted from that write
\* has passed, a session is never absent from the store, whatever Callbacks
\* run on it: the entry holds the request or a terminal value, a Callback
\* step removes no entry, and a Status at any point among the steps of
\* Callbacks on the session answers pending, success or error, never not
\* found.
C36_SessionNeverAbsent ==
    /\ [](\A s \in CreatedSessions :
             now <= s.t0 + cfg.CacheExpiration =>
                 /\ ~IsNil(Stored(s.sessionID))
                 /\ Deref(Stored(s.sessionID)).kind = "AuthorizationRequestMessage"
                        \/ Terminal(Deref(Stored(s.sessionID))))
    /\ [][/\ (\E w \in Workers : workers[w].op = "Callback" /\ workers'[w] # workers[w]) =>
                DOMAIN cache \subseteq DOMAIN cache'
          /\ (last'.op = "Status" /\ last' # last) =>
                \A s \in CreatedSessions :
                    (s.sessionID = last'.id /\ now <= s.t0 + cfg.CacheExpiration) =>
                        /\ last'.resp.code = 200
                        /\ last'.resp.body.Status \in StatusValues]_vars

\* C36 witness: Status answered pending for a session on which one Callback
\* has been verified and is about to write while another has just read it.
C36_Witness ==
    /\ last.op = "Status"
    /\ last.resp.code = 200
    /\ last.resp.body.Status = statusPending
    /\ \E w \in Workers, v \in Workers :
          /\ w # v
          /\ PendingReader(w, last.id) /\ workers[w].pc = "CallbackSet"
          /\ PendingReader(v, last.id) /\ workers[v].pc = "CallbackVerify"
          /\ Stored(last.id) = workers[v].msg

\* the step is the QR save of the SignIn of worker w
Saved(w) == workers[w].pc = "SignInSave" /\ workers'[w].pc = "idle"

\* C37: a SignIn that succeeds writes its session under an id and its QR code
\* under an id that are keys of no entry and were given to no other SignIn:
\* it creates those two entries and leaves every session, pending or
\* terminal, and every QR code as it was; and the SignIns that returned have
\* different session ids and different QR ids.
C37_SignInIdsAreFresh ==
    /\ [][\A w \in Workers :
             /\ Accepted(w) =>
                   /\ workers'[w].sessionID = nextUUID
                   /\ SessionKey(nextUUID) \notin DOMAIN cache
                   /\ SessionKey(nextUUID) \in DOMAIN cache'
                   /\ OthersUnchanged(SessionKey(nextUUID))
                   /\ nextUUID \notin SessionIds
             /\ Saved(w) =>
                   /\ last'.resp.code = 200
                   /\ last'.resp.body.SessionID = workers[w].sessionID
                   /\ last'.resp.body.QrCode = QrCodeURL(cfg, nextUUID)
                   /\ QRKey(nextUUID) \notin DOMAIN cache
                   /\ QRKey(nextUUID) \in DOMAIN cache'
                   /\ OthersUnchanged(QRKey(nextUUID))
                   /\ nextUUID \notin QRIds
                   /\ workers[w].sessionID \notin {i.sessionID : i \in issued}]_vars
    /\ [](\A i \in issued, j \in issued :
             i # j => i.sessionID # j.sessionID /\ i.qrID # j.qrID)

\* C37 witness: two SignIns have returned, the second after a Callback had
\* written a terminal value in the session of the first; that value and both
\* QR codes are held.
C37_Witness ==
    \E i \in issued, j \in issued :
        /\ i.sessionID < j.sessionID
        /\ StoresTerminal(i.sessionID)
        /\ Stored(j.sessionID) = Some(j.msg)
        /\ QRHeld(i) /\ QRHeld(j)
        /\ last.op = "SignIn"
        /\ last.id = j.sessionID

\* the requests that SignIn has stored, by session id
RequestOf(id) ==
    {i.msg : i \in {j \in issued : j.sessionID = id}}
    \cup {Deref(workers[w].msg) : w \in {v \in Workers : /\ workers[v].pc = "SignInSave"
                                                         /\ workers[v].sessionID = id}}

\* a Callback of worker w is between its read and its answer
InCallback(w) == workers[w].pc \in {"CallbackVerify", "CallbackSet"}

\* C38: a Callback calls the verifier at most once, with the pending request
\* it read under its own session id, which is the request SignIn stored for
\* that session and for no other; and the terminal value it writes goes
\* under that session id.
C38_VerifiesItsOwnSession ==
    /\ [](\A w \in Workers :
             InCallback(w) =>
                 /\ ~IsNil(workers[w].msg)
                 /\ Deref(workers[w].msg).kind = "AuthorizationRequestMessage"
                 /\ Deref(workers[w].msg) \in RequestOf(workers[w].sessionID)
                 /\ \A id \in PairUUIDs \ {workers[w].sessionID} :
                       Deref(workers[w].msg) \notin RequestOf(id)
                 /\ Deref(workers[w].msg).Body.CallbackURL = CallbackOf(workers[w].sessionID))
    /\ [][\A w \in Workers :
             /\ (workers[w].pc = "idle" /\ workers'[w].pc = "CallbackVerify") =>
                    /\ workers'[w].msg = Stored(workers'[w].sessionID)
                    /\ cache' = cache
             /\ workers'[w].pc = "CallbackSet" =>
                    /\ workers[w].pc \in {"CallbackVerify", "CallbackSet"}
                    /\ workers[w].pc = "CallbackVerify" =>
                          /\ workers'[w].msg = workers[w].msg
                          /\ workers'[w].sessionID = workers[w].sessionID
                          /\ workers'[w].token = workers[w].token
                          /\ cache' = cache
             /\ (workers[w].pc = "CallbackSet" /\ workers'[w] # workers[w]) =>
                    /\ workers'[w].pc = "idle"
                    /\ last'.op = "Callback" /\ last'.id = workers[w].sessionID
                    /\ OthersUnchanged(SessionKey(workers[w].sessionID))
                    /\ cache' # cache =>
                          Terminal(cache'[SessionKey(workers[w].sessionID)].Object)]_vars

\* C38 witness: two Callbacks on two pending sessions are in flight, each
\* with the request of its own session, one verified and about to write.
C38_Witness ==
    \E w \in Workers, v \in Workers :
        /\ workers[w].pc = "CallbackSet" /\ workers[w].out.ok
        /\ workers[v].pc = "CallbackVerify"
        /\ workers[w].sessionID # workers[v].sessionID
        /\ workers[w].msg # workers[v].msg
        /\ Stored(workers[w].sessionID) = workers[w].msg
        /\ Stored(workers[v].sessionID) = workers[v].msg

\* the SignIns of off-chain bodies that returned and whose QR code
\* GetQRCodeFromStore still finds
FetchableOffChain ==
    {i \in issued : /\ i.msg.kind = "AuthorizationRequestMessage"
                    /\ QRcodeStoreGet(cache, now, i.qrID).kind = "ok"}

\* the step is a Callback answered with 'sessionID not found' on session id
CallbackNotFound(id) ==
    /\ last' # last
    /\ last'.op = "Callback"
    /\ last'.id = id
    /\ last'.resp = GoError("sessionID not found")

\* C39 as stated: whatever the configured session TTL, while the QR code of
\* an off-chain session is fetchable the session named in its callback URL
\* is in the session store, and no Callback on it is answered with
\* 'sessionID not found'.
C39_FetchableImpliesSession ==
    /\ [](\A i \in FetchableOffChain :
             /\ QRcodeStoreGet(cache, now, i.qrID).val.Body.CallbackUrl = Some(CallbackOf(i.sessionID))
             /\ ~IsNil(Stored(i.sessionID)))
    /\ [][\A i \in FetchableOffChain : ~CallbackNotFound(i.sessionID)]_vars

\* the session written by the SignIn lasts at least as long as its QR code
OutlastsQR(i) == i.t0 + cfg.CacheExpiration >= i.tQR + OneHour

\* C39 amended: the QR code is kept for one hour whatever the session TTL;
\* while it is fetchable, the session named in its callback URL is in the
\* session store, and no Callback on it is answered with 'sessionID not
\* found', provided the session TTL counted from the session write of the
\* SignIn ends no earlier than the hour counted from its QR save.
C39_FetchableImpliesSessionIfOutlasts ==
    /\ [](\A i \in FetchableOffChain :
             /\ QRcodeStoreGet(cache, now, i.qrID).val.Body.CallbackUrl = Some(CallbackOf(i.sessionID))
             /\ cache[QRKey(i.qrID)].Expiration = i.tQR + OneHour
             /\ OutlastsQR(i) => ~IsNil(Stored(i.sessionID)))
    /\ [][\A i \in FetchableOffChain : OutlastsQR(i) => ~CallbackNotFound(i.sessionID)]_vars

\* C39 witness: with a session TTL of an hour and a half, the QR code saved
\* later than the session was written is fetched in the last moment of its
\* hour, and the session still holds its request.
C39_Witness ==
    /\ last.op = "GetQRCodeFromStore"
    /\ last.resp.code = 200
    /\ cfg.CacheExpiration = 3
    /\ \E i \in FetchableOffChain :
          /\ i.qrID = last.id
          /\ i.tQR > i.t0
          /\ now = i.tQR + OneHour
          /\ OutlastsQR(i)
          /\ Stored(i.sessionID) = Some(i.msg)

====
